---- MODULE Spec2Model ----
(***************************************************************************)
(* The in-memory data plane of the radial cache: the node arena and the    *)
(* facade (RadialCircularList), the sharded key index (LockFreeHashTable), *)
(* the per-key bucket (MidpointNode) and its heap (LockFreeHeap).          *)
(*                                                                         *)
(* Every atomic load, store, exchange and compare-exchange of the source   *)
(* is one step of the calling thread; plain reads and writes of memory     *)
(* that only the stepping thread can reach are merged into the step that   *)
(* follows them.  Time is counted in microseconds: every clock reading of  *)
(* the model is a whole microsecond, so the nanosecond values of the       *)
(* source are 1000 times the model's.                                      *)
(***************************************************************************)
EXTENDS Integers, Sequences, FiniteSets, TLC

\* ------------------------------------------------------------------ bounds

SetupCalls == 2      \* calls of the main thread before it starts the workers
DrainCalls == 2      \* calls of the main thread after it has joined the workers
InsDrainCalls == 5   \* the same, after two inserting workers
FillSetupCalls == 18 \* calls of the main thread that use up the arena
SeqInserts == 4      \* inserts of a thread that runs alone
SeqGets == 5         \* retrievals that follow them
SmallInserts == 4    \* inserts into the cache of 3 slots
MaxBatch == 2        \* longest insert_batch argument
FullSetupCalls == 5
FullDrainCalls == 3
TotalSetupCalls == 3
MaxConfig == 2
MmCalls == 3
MaxCycles == 2
AllocCalls == 2
BloomCalls == 2
RemoveCalls == 3
QueueCalls == 2
QueueNodes == 5
MaxAdds == 43
TripInserts == 3     \* inserts of a thread that inserts and retrieves at once
TripGets == 2        \* retrievals that follow them
BatchItems == 2      \* items of an insert_batch made by a thread that runs alone
BatchGets == 5       \* calls that follow it
ListGets == 2        \* calls of get_highest_priority_batch after an insert_batch
GetsSetupCalls == 3  \* inserts of the main thread before two workers retrieve
LiveMainCalls == 1   \* calls of the main thread before and after fair workers
ExpiryGets == 2      \* retrievals after the insert of a record that lives 1 ms

\* ------------------------------------------------------- program constants

BUCKETS == 64              \* LockFreeHashTable::BUCKETS
FNV_PRIME_MOD == 51        \* 0x100000001b3 mod BUCKETS
FNV_OFFSET_MOD == 37       \* 0xcbf29ce484222325 mod BUCKETS
HEAP_DIVISOR == 10         \* max_nodes / 10
NODE_BYTES == 32           \* sizeof(Node)
BYTES_PER_MB == 1048576    \* 1024 * 1024
WORD_BITS == 64            \* the bits of a word of BloomFilter::bit_array_
COUNTER_MAX == 255         \* the largest uint8_t counter
MAX_FREE_NODES == 1000     \* LockFreeQueue::MAX_FREE_NODES
US_PER_SECOND == 1000000   \* expiry * 1'000'000'000 ns, in microseconds
DEFAULT_EXPIRY_S == 60     \* Node(val, prio, expiry = 60.0)

Null == -1                 \* nullptr of Node*
NoBucket == 0              \* nullptr of BucketNode* / MidpointNode*

\* ------------------------------------------------------------------ inputs

\* The main thread starts the workers, joins them and then goes on alone.
T0 == "main"
T1 == "t1"
T2 == "t2"
Workers == {T1, T2}
Threads == {T0} \cup Workers

BloomKeys == {"A", "B"}
AAPL == "AAPL"
ORCL == "ORCL"
NOPE == "NOPE"
\* The bytes of each key (std::string of chars).
KeyBytes(k) ==
    CASE k = AAPL -> <<65, 65, 80, 76>>
      [] k = ORCL -> <<79, 82, 67, 76>>
      [] k = NOPE -> <<78, 79, 80, 69>>

\* A time to live: a number of seconds given as num / den.
TtlMs == [num |-> 1, den |-> 1000]
TtlMin == [num |-> 60, den |-> 1]

\* ----------------------------------------------------------- pure functions

RECURSIVE Xor(_, _)
Xor(a, b) ==
    IF a = 0 /\ b = 0 THEN 0
    ELSE (((a % 2) + (b % 2)) % 2) + 2 * Xor(a \div 2, b \div 2)

\* LockFreeHashTable::hash: 64-bit FNV-1a modulo BUCKETS.  BUCKETS divides
\* 2^64, so the residue of every 64-bit product is the product of the residues.
RECURSIVE FnvFold(_, _)
FnvFold(h, bytes) ==
    IF bytes = << >> THEN h
    ELSE FnvFold((Xor(h, (Head(bytes) % BUCKETS)) * FNV_PRIME_MOD) % BUCKETS, Tail(bytes))

hash(k) == FnvFold(FNV_OFFSET_MOD, KeyBytes(k))

\* The conversion with the lifetime truncated before it is multiplied.
ExpiryTimeTruncated(ttl) == (ttl.num \div ttl.den) * US_PER_SECOND

\* static_cast<uint64_t>(expiry * 1e9): the product, truncated toward zero.
ExpiryTime(ttl) == (ttl.num * US_PER_SECOND) \div ttl.den

\* The expiry test with the comparison turned round.
is_expired_inverted(n, t) == (t - n.timestamp_ns) < n.expiry_time_ns

\* The expiry test with the boundary counted as expired.
is_expired_at_boundary(n, t) == (t - n.timestamp_ns) >= n.expiry_time_ns

\* Node::is_expired at clock reading t.
is_expired(n, t) == (t - n.timestamp_ns) > n.expiry_time_ns

\* The function f with f[x] set to v.
Put(f, x, v) == [y \in DOMAIN f \cup {x} |-> IF y = x THEN v ELSE f[y]]

Parent(i) == (i - 1) \div 2
Left(i) == 2 * i + 1
Right(i) == 2 * i + 2

\* ------------------------------------------------------------------- state

VARIABLES
    max_nodes,     \* RadialCircularList::max_nodes
    total_nodes,   \* RadialCircularList::total_nodes
    pool_index,    \* RadialCircularList::pool_index
    node_pool,     \* written slot -> Node (and whether it has been deleted);
                   \* every other slot holds Node(0.0) as constructed
    buckets,       \* shard -> head BucketNode*
    bnodes,        \* the BucketNodes allocated so far, each with its heap
    now,           \* the clock
    crashed,       \* the process was killed by a fault
    pc,            \* thread -> position in its call
    loc,           \* thread -> the locals of its call
    phase,         \* "setup", "run" (the workers are running) or "drain"
    budget,        \* turn -> calls that may still be started in it
    inputs,        \* the argument sets of the run
    res,           \* thread -> what its last call returned
    slotKey,       \* written slot -> the key whose insert wrote it
    writes,        \* written slot -> number of calls that wrote its fields
    retCount,      \* written slot -> number of retrievals that returned it
    insTrue,       \* number of insert calls that returned true
    insFull,       \* number of insert calls that push refused (bucket full)
    okSlots,       \* the slots of the insert calls that returned true
    batTrue,       \* number of items of the insert_batch calls that returned true
    hist,          \* what the calls of the main thread returned before Spawn
    faults,        \* the undefined operations executed so far
    mgr,           \* the MemoryManager: its members
    mth,           \* the threads of the MemoryManager: its owner and its worker
    bf,            \* the Bloom filter: its members
    bth,           \* the threads that use the Bloom filter
    q,             \* the LockFreeQueue: its members and its nodes
    qth            \* the threads that use the queue, and what their calls returned

vars == <<max_nodes, total_nodes, pool_index, node_pool, buckets, bnodes, now,
          crashed, pc, loc, phase, budget, inputs, res, slotKey, writes, retCount,
          insTrue, insFull, okSlots, batTrue, hist, faults, mgr, mth, bf, bth,
          q, qth>>

\* The components beside the cache; where one is not built its variables
\* hold Unbuilt.
partVars == <<mgr, mth, bf, bth, q, qth>>
Unbuilt == << >>

Slots == 0 .. (max_nodes - 1)
Capacity == max_nodes \div HEAP_DIVISOR

\* Node(0.0), constructed at clock reading t.
NewNode(t) ==
    [value |-> 0, priority |-> 0, timestamp_ns |-> t,
     expiry_time_ns |-> ExpiryTime([num |-> DEFAULT_EXPIRY_S, den |-> 1]),
     freed |-> FALSE]

\* BucketNode(k, cap) with its MidpointNode and LockFreeHeap(cap).
NewBucketNode(k, cap) ==
    [key |-> k, next |-> NoBucket, heap |-> [i \in 1 .. cap |-> Null], size |-> 0]

Loc0 ==
    [op |-> "none", key |-> "", value |-> 0, priority |-> 0, expiry |-> TtlMin,
     node |-> Null, batch_size |-> 0, start_index |-> 0, i |-> 0,
     head |-> NoBucket, new_node |-> NoBucket, mid |-> NoBucket,
     current_size |-> 0, index |-> 0, child |-> Null, parent_node |-> Null,
     top |-> Null, last |-> Null, sd_size |-> 0, current |-> Null,
     max_index |-> 0, right_node |-> Null, max_node |-> Null, lost |-> 0,
     snap |-> << >>, dropped |-> {}, items |-> << >>, keys |-> << >>,
     results |-> << >>, exhausted |-> FALSE]

\* What a call returned, with what was true of the cache when it returned:
\* ok/node are the result; mid the bucket the call used; best the greatest
\* priority among the records of that bucket that were live at the return
\* (the returned one included), -1 when there was none; lost the expired
\* records the call discarded; expired/freed what was true of the returned
\* record when its expiry was tested, ties the live records of its priority
\* left in the bucket; value/priority/expiry the arguments of
\* an insert; at the clock reading at the return; same whether an insert of
\* the main thread, before it started the workers, returned with total_nodes,
\* the key index and every bucket as they were when it was called; items the
\* arguments of an insert_batch and dropped the slots of those that push
\* refused; keys the argument of a get_highest_priority_batch and results
\* what its calls of get_highest_priority returned; exhausted whether the
\* pool index had reached max_nodes when an insert or insert_batch was called.
Res0 == [op |-> "none", key |-> "", ok |-> FALSE, node |-> Null, why |-> "",
         mid |-> NoBucket, best |-> -1, lost |-> 0, expired |-> FALSE,
         freed |-> FALSE, index |-> Null, size_read |-> 0,
         value |-> 0, priority |-> 0, expiry |-> TtlMin, at |-> 0, same |-> TRUE,
         ties |-> 0, dropped |-> {}, items |-> << >>, keys |-> << >>,
         results |-> << >>, exhausted |-> FALSE]

\* RadialCircularList::RadialCircularList(max) under the arguments in.
ConstructCache(max, in, ops) ==
    /\ max_nodes = max
    /\ total_nodes = 0
    /\ pool_index = 0
    /\ now = 0
    /\ node_pool = [s \in {} |-> NewNode(0)]
    /\ buckets = [b \in 0 .. (BUCKETS - 1) |-> NoBucket]
    /\ bnodes = << >>
    /\ crashed = FALSE
    /\ pc = [t \in Threads |-> "idle"]
    /\ loc = [t \in Threads |-> Loc0]
    /\ phase = "setup"
    /\ budget = ops
    /\ inputs = in
    /\ res = [t \in Threads |-> Res0]
    /\ slotKey = [s \in {} |-> ""]
    /\ writes = [s \in {} |-> 0]
    /\ retCount = [s \in {} |-> 0]
    /\ insTrue = 0
    /\ insFull = 0
    /\ okSlots = {}
    /\ batTrue = 0
    /\ hist = << >>
    /\ faults = {}

\* A cache and nothing beside it.
Construct(max, in, ops) ==
    /\ ConstructCache(max, in, ops)
    /\ mgr = Unbuilt /\ mth = Unbuilt /\ bf = Unbuilt /\ bth = Unbuilt /\ q = Unbuilt /\ qth = Unbuilt

\* ------------------------------------------------------------ step helpers

At(t, label) == ~crashed /\ pc[t] = label

\* The calls of the main thread are counted by phase, a worker's by thread.
Turn(t) == IF t = T0 THEN phase ELSE t

\* Thread t may start a call of kind op: the main thread before it starts the
\* workers ("setup") and after it has joined them ("drain"), a worker between.
\* The kinds of call a thread may make are given for each of its calls, counted
\* down from the first.
MayCall(t, op) ==
    /\ At(t, "idle")
    /\ IF t = T0 THEN phase \in {"setup", "drain"} ELSE phase = "run"
    /\ budget[Turn(t)] > 0
    /\ op \in inputs.ops[Turn(t)][budget[Turn(t)]]

\* The call that thread t starts is counted.
Called(t) == budget' = [budget EXCEPT ![Turn(t)] = @ - 1]
Goto(t, label) == pc' = [pc EXCEPT ![t] = label]
SetLoc(t, l) == loc' = [loc EXCEPT ![t] = l]

\* The call of thread t returns r; the history keeps, with a retrieval, the
\* reading of the clock at its return.
Finish(t, r) ==
    /\ pc' = [pc EXCEPT ![t] = "idle"]
    /\ loc' = [loc EXCEPT ![t] = Loc0]
    /\ res' = [res EXCEPT ![t] = r]
    /\ hist' = IF t = T0 /\ phase = "setup"
               THEN Append(hist, [r EXCEPT !.at = IF r.op = "get" THEN now ELSE 0])
               ELSE hist

HeapOf(m) == bnodes[m].heap
Cell(m, i) == bnodes[m].heap[i + 1]
SetCell(m, i, n) == bnodes' = [bnodes EXCEPT ![m].heap[i + 1] = n]

\* The traversal without its comparison of keys.
FindInListAny(h, k) == h

\* The first BucketNode with key k on the list from head h, or NoBucket.
RECURSIVE FindInList(_, _)
FindInList(h, k) ==
    IF h = NoBucket THEN NoBucket
    ELSE IF bnodes[h].key = k THEN h
    ELSE FindInList(bnodes[h].next, k)

\* compare_exchange_weak may fail although the expected value is there.
WeakCasOutcomes(matches) == IF matches THEN {TRUE, FALSE} ELSE {FALSE}

\* What reading a field through pointer n yields: its value where n points to
\* a node that has not been deleted; anything, or a fault, otherwise.
Defined(n) == n # Null /\ ~node_pool[n].freed
FaultOf(n) == IF n = Null THEN "null_deref" ELSE "use_after_free"

arenaVars == <<max_nodes, total_nodes, pool_index, node_pool>>
indexVars == <<buckets, bnodes>>
ghostVars == <<slotKey, writes, retCount, insTrue, insFull, okSlots, batTrue>>
envVars == <<now, crashed, phase, budget, inputs, faults, partVars>>

\* ------------------------------------------------------------- the callers

\* A thread calls insert(value, midpoint, priority, expiry_time).
CallInsert(t) ==
    /\ MayCall(t, "insert")
    /\ \E v \in inputs.values, k \in inputs.keys[Turn(t)],
          r \in inputs.records :
          SetLoc(t, [Loc0 EXCEPT !.op = "insert", !.value = v, !.key = k,
                                 !.priority = r.priority, !.expiry = r.expiry,
                                 !.exhausted = (pool_index >= max_nodes),
                                 !.snap = IF t = T0 /\ phase = "setup"
                                          THEN <<buckets, bnodes, total_nodes>>
                                          ELSE << >>])
    /\ Goto(t, "ins_load_total")
    /\ Called(t)
    /\ res' = [res EXCEPT ![t] = Res0]
    /\ UNCHANGED hist
    /\ UNCHANGED <<arenaVars, indexVars, ghostVars, now, crashed, phase, inputs, partVars, faults>>

\* A thread calls insert_batch(batch); the items are read one by one.
CallInsertBatch(t) ==
    /\ MayCall(t, "batch")
    /\ \E n \in inputs.batch_sizes :
          SetLoc(t, [Loc0 EXCEPT !.op = "batch", !.batch_size = n,
                                 !.exhausted = (pool_index >= max_nodes)])
    /\ Goto(t, "bat_load_total")
    /\ Called(t)
    /\ res' = [res EXCEPT ![t] = Res0]
    /\ UNCHANGED hist
    /\ UNCHANGED <<arenaVars, indexVars, ghostVars, now, crashed, phase, inputs, partVars, faults>>

\* A thread calls get_highest_priority(midpoint).
CallGet(t) ==
    /\ MayCall(t, "get")
    /\ \E k \in inputs.get_keys :
          SetLoc(t, [Loc0 EXCEPT !.op = "get", !.key = k])
    /\ Goto(t, "get_lookup")
    /\ Called(t)
    /\ res' = [res EXCEPT ![t] = Res0]
    /\ UNCHANGED hist
    /\ UNCHANGED <<arenaVars, indexVars, ghostVars, now, crashed, phase, inputs, partVars, faults>>

\* The clock advances.
Tick ==
    /\ ~crashed
    /\ now < inputs.max_ticks * inputs.tick_us
    /\ now' = now + inputs.tick_us
    /\ UNCHANGED <<arenaVars, indexVars, ghostVars, pc, loc, res, hist, crashed,
                   phase, budget, inputs, partVars, faults>>

\* The main thread starts the workers, once it has made enough of its own calls.
Spawn ==
    /\ At(T0, "idle") /\ phase = "setup"
    /\ budget["setup"] <= inputs.spawn_after
    /\ phase' = "run"
    /\ UNCHANGED <<arenaVars, indexVars, ghostVars, pc, loc, res, hist, now, crashed,
                   budget, inputs, partVars, faults>>

\* The main thread joins the workers: each has returned from its last call.
Join ==
    /\ ~crashed /\ phase = "run"
    /\ \A w \in Workers : pc[w] = "idle" /\ budget[w] = 0
    /\ phase' = "drain"
    /\ UNCHANGED <<arenaVars, indexVars, ghostVars, pc, loc, res, hist, now, crashed,
                   budget, inputs, partVars, faults>>

\* -------------------------------------------------- RadialCircularList::insert

InsertResult(l, ok, why) ==
    [Res0 EXCEPT !.op = "insert", !.key = l.key, !.ok = ok, !.why = why,
                 !.index = l.node, !.mid = l.mid, !.size_read = l.current_size,
                 !.value = l.value, !.priority = l.priority, !.expiry = l.expiry,
                 !.exhausted = l.exhausted,
                 !.same = (l.snap = << >> \/ l.snap = <<buckets, bnodes, total_nodes>>)]

\* total_nodes.load(); if (current_nodes >= max_nodes) return false;
InsLoadTotal(t) ==
    /\ At(t, "ins_load_total")
    /\ IF total_nodes >= max_nodes
       THEN Finish(t, InsertResult(loc[t], FALSE, "total"))
       ELSE Goto(t, "ins_claim") /\ UNCHANGED <<loc, res, hist>>
    /\ UNCHANGED <<arenaVars, indexVars, ghostVars, envVars>>

\* A fetch_add whose increment is lost.
PoolIndexAfterLost(n) == pool_index

\* pool_index.fetch_add(n): the value the counter is left with.
PoolIndexAfter(n) == pool_index + n

\* The index test, off by one.
ClaimFailsOver(index) == index > max_nodes

\* if (index >= max_nodes) return false;
ClaimFails(index) == index >= max_nodes

\* The four field writes of insert and insert_batch into slot s.
WriteNode(s, l) ==
    /\ node_pool' = Put(node_pool, s,
           [value |-> l.value, priority |-> l.priority, timestamp_ns |-> now,
            expiry_time_ns |-> ExpiryTime(l.expiry),
            freed |-> s \in DOMAIN node_pool /\ node_pool[s].freed])
    /\ slotKey' = Put(slotKey, s, l.key)
    /\ writes' = Put(writes, s, IF s \in DOMAIN writes THEN writes[s] + 1 ELSE 1)
    /\ retCount' = Put(retCount, s, IF s \in DOMAIN retCount THEN retCount[s] ELSE 0)

\* index = pool_index.fetch_add(1); if (index >= max_nodes) return false;
\* then the writes of the node's fields.
InsClaim(t) ==
    /\ At(t, "ins_claim")
    /\ pool_index' = PoolIndexAfter(1)
    /\ IF ClaimFails(pool_index)
       THEN /\ Finish(t, InsertResult(loc[t], FALSE, "arena"))
            /\ UNCHANGED <<node_pool, slotKey, writes, retCount>>
       ELSE /\ WriteNode(pool_index, loc[t])
            /\ SetLoc(t, [loc[t] EXCEPT !.node = pool_index])
            /\ Goto(t, "goc_find")
            /\ UNCHANGED <<res, hist>>
    /\ UNCHANGED <<max_nodes, total_nodes, indexVars, insTrue, insFull, okSlots, batTrue,
                   envVars>>

\* A fetch_add of total_nodes whose increment is lost.
TotalNodesAfterNone(n) == total_nodes

\* The counter advanced by the call, not by its items.
TotalNodesAfterOne(n) == total_nodes + 1

\* total_nodes.fetch_add(n): the value the counter is left with.
TotalNodesAfter(n) == total_nodes + n

\* total_nodes.fetch_add(1); return true;
InsCount(t) ==
    /\ At(t, "ins_count")
    /\ total_nodes' = TotalNodesAfter(1)
    /\ insTrue' = insTrue + 1
    /\ okSlots' = okSlots \cup {loc[t].node}
    /\ Finish(t, InsertResult(loc[t], TRUE, "ok"))
    /\ UNCHANGED <<max_nodes, pool_index, node_pool, indexVars, slotKey, writes,
                   retCount, insFull, batTrue, envVars>>

\* ------------------------------------------ LockFreeHashTable::get_or_create

\* The list is searched for the key; when it is absent a BucketNode is built.
\* Nodes reachable from a head that was loaded never change their key or
\* their next pointer, so the traversal is one step with the load of the head.
GocFind(t) ==
    /\ At(t, "goc_find")
    /\ LET l == loc[t]
           found == FindInList(buckets[hash(l.key)], l.key)
       IN IF found # NoBucket
          THEN /\ SetLoc(t, [l EXCEPT !.mid = found])
               /\ Goto(t, "push_load_size")
               /\ UNCHANGED bnodes
          ELSE /\ bnodes' = Append(bnodes, NewBucketNode(l.key, Capacity))
               /\ SetLoc(t, [l EXCEPT !.new_node = Len(bnodes) + 1])
               /\ Goto(t, "goc_load_head")
    /\ UNCHANGED <<arenaVars, buckets, ghostVars, envVars, res, hist>>

\* head = buckets[index].load(); new_node->next.store(head);
GocLoadHead(t) ==
    /\ At(t, "goc_load_head")
    /\ LET l == loc[t]
           h == buckets[hash(l.key)]
       IN /\ SetLoc(t, [l EXCEPT !.head = h])
          /\ bnodes' = [bnodes EXCEPT ![l.new_node].next = h]
    /\ Goto(t, "goc_cas")
    /\ UNCHANGED <<arenaVars, buckets, ghostVars, envVars, res, hist>>

\* buckets[index].compare_exchange_weak(head, new_node): on success the new
\* bucket is returned, on failure the loop runs again.
GocCas(t) ==
    /\ At(t, "goc_cas")
    /\ LET l == loc[t]
           b == hash(l.key)
       IN \E ok \in WeakCasOutcomes(buckets[b] = l.head) :
             IF ok
             THEN /\ buckets' = [buckets EXCEPT ![b] = l.new_node]
                  /\ SetLoc(t, [l EXCEPT !.mid = l.new_node])
                  /\ Goto(t, "push_load_size")
             ELSE /\ Goto(t, "goc_load_head")
                  /\ UNCHANGED <<buckets, loc>>
    /\ UNCHANGED <<arenaVars, bnodes, ghostVars, envVars, res, hist>>

\* ------------------------------------------------------- LockFreeHeap::push

\* push returns ok to insert or to insert_batch.
PushReturn(t, l, ok) ==
    IF l.op = "insert"
    THEN IF ok
         THEN Goto(t, "ins_count") /\ SetLoc(t, l) /\ UNCHANGED <<res, hist>>
         ELSE Finish(t, InsertResult(l, FALSE, "bucket"))
    ELSE /\ Goto(t, "bat_item")
         /\ SetLoc(t, [l EXCEPT !.i = @ + 1,
                                !.dropped = IF ok THEN @ ELSE @ \cup {l.node}])
         /\ UNCHANGED <<res, hist>>

\* The capacity test, off by one.
PushRefusesOver(current_size, capacity) == current_size > capacity

\* if (current_size >= capacity) return false;
PushRefuses(current_size, capacity) == current_size >= capacity

\* current_size = size_.load(); if (current_size >= capacity) return false;
PushLoadSize(t) ==
    /\ At(t, "push_load_size")
    /\ LET l == [loc[t] EXCEPT !.current_size = bnodes[loc[t].mid].size]
       IN IF PushRefuses(l.current_size, Len(HeapOf(l.mid)))
          THEN /\ PushReturn(t, l, FALSE)
               /\ insFull' = IF l.op = "insert" THEN insFull + 1 ELSE insFull
          ELSE /\ Goto(t, "push_cas") /\ SetLoc(t, l)
               /\ UNCHANGED <<res, hist, insFull>>
    /\ UNCHANGED <<arenaVars, indexVars, slotKey, writes, retCount, insTrue,
                   okSlots, batTrue, envVars>>

\* size_.compare_exchange_weak(current_size, current_size + 1)
PushCas(t) ==
    /\ At(t, "push_cas")
    /\ LET l == loc[t]
       IN \E ok \in WeakCasOutcomes(bnodes[l.mid].size = l.current_size) :
             IF ok
             THEN /\ bnodes' = [bnodes EXCEPT ![l.mid].size = l.current_size + 1]
                  /\ Goto(t, "push_store")
             ELSE /\ Goto(t, "push_load_size")
                  /\ UNCHANGED bnodes
    /\ UNCHANGED <<arenaVars, buckets, ghostVars, envVars, loc, res, hist>>

\* heap[current_size].node.store(node); sift_up(current_size) begins.
PushStore(t) ==
    /\ At(t, "push_store")
    /\ LET l == [loc[t] EXCEPT !.index = loc[t].current_size]
       IN /\ SetCell(l.mid, l.current_size, l.node)
          /\ IF l.index > 0
             THEN Goto(t, "su_load_child") /\ SetLoc(t, l) /\ UNCHANGED <<res, hist>>
             ELSE PushReturn(t, l, TRUE)
    /\ UNCHANGED <<arenaVars, buckets, ghostVars, envVars>>

\* child = heap[index].node.load();
SuLoadChild(t) ==
    /\ At(t, "su_load_child")
    /\ SetLoc(t, [loc[t] EXCEPT !.child = Cell(loc[t].mid, loc[t].index)])
    /\ Goto(t, "su_load_parent")
    /\ UNCHANGED <<arenaVars, indexVars, ghostVars, envVars, res, hist>>

\* The order test of a heap that keeps the least priority on top.
SuInOrderMin(parent_node, child) ==
    node_pool[parent_node].priority <= node_pool[child].priority

\* parent_node->priority >= child->priority
SuInOrder(parent_node, child) ==
    node_pool[parent_node].priority >= node_pool[child].priority

\* The faults of reading a field through each pointer of ns.
ReadFaults(ns) == {FaultOf(n) : n \in {m \in ns : ~Defined(m)}}

\* The outcomes of a test that reads fields through the pointers ns: its
\* value when all may be read, anything or a fault otherwise.
ReadOutcomes(ns, value) ==
    IF ReadFaults(ns) = {} THEN {IF value THEN "yes" ELSE "no"}
    ELSE {"yes", "no", "fault"}

\* The step of thread t whose test had outcome o after reading through ns.
Faulting(t, ns, o) ==
    /\ faults' = faults \cup ReadFaults(ns)
    /\ crashed' = (o = "fault")

\* parent_node = heap[parent].node.load();
\* if (!child || !parent_node || parent_node->priority >= child->priority) break;
SuLoadParent(t) ==
    /\ At(t, "su_load_parent")
    /\ LET l == [loc[t] EXCEPT !.parent_node = Cell(loc[t].mid, Parent(loc[t].index))]
       IN IF l.child = Null \/ l.parent_node = Null
          THEN PushReturn(t, l, TRUE) /\ UNCHANGED <<crashed, faults>>
          ELSE \E o \in ReadOutcomes({l.parent_node, l.child},
                                      SuInOrder(l.parent_node, l.child)) :
                 /\ Faulting(t, {l.parent_node, l.child}, o)
                 /\ CASE o = "fault" -> UNCHANGED <<pc, loc, res, hist>>
                      [] o = "yes" -> PushReturn(t, l, TRUE)
                      [] o = "no" -> /\ Goto(t, "su_cas_parent") /\ SetLoc(t, l)
                                     /\ UNCHANGED <<res, hist>>
    /\ UNCHANGED <<arenaVars, indexVars, ghostVars, now, phase, budget, inputs, partVars>>

\* heap[parent].node.compare_exchange_strong(parent_node, child)
SuCasParent(t) ==
    /\ At(t, "su_cas_parent")
    /\ LET l == loc[t]
           p == Parent(l.index)
       IN IF Cell(l.mid, p) = l.parent_node
          THEN /\ SetCell(l.mid, p, l.child)
               /\ Goto(t, "su_cas_child")
               /\ UNCHANGED <<loc, res, hist>>
          ELSE PushReturn(t, l, TRUE) /\ UNCHANGED bnodes
    /\ UNCHANGED <<arenaVars, buckets, ghostVars, envVars>>

\* heap[index].node.compare_exchange_strong(child, parent_node); index = parent;
SuCasChild(t) ==
    /\ At(t, "su_cas_child")
    /\ LET l == loc[t]
           p == Parent(l.index)
       IN IF Cell(l.mid, l.index) = l.child
          THEN /\ SetCell(l.mid, l.index, l.parent_node)
               /\ IF p > 0
                  THEN /\ Goto(t, "su_load_child")
                       /\ SetLoc(t, [l EXCEPT !.index = p])
                       /\ UNCHANGED <<res, hist>>
                  ELSE PushReturn(t, [l EXCEPT !.index = p], TRUE)
          ELSE PushReturn(t, l, TRUE) /\ UNCHANGED bnodes
    /\ UNCHANGED <<arenaVars, buckets, ghostVars, envVars>>

\* -------------------------------------------- RadialCircularList::insert_batch

BatchResult(l, ok, why) ==
    [Res0 EXCEPT !.op = "batch", !.ok = ok, !.why = why, !.index = l.start_index,
                 !.lost = l.batch_size, !.dropped = l.dropped, !.items = l.items,
                 !.exhausted = l.exhausted]

\* total_nodes.load(); if (current_nodes + batch_size > max_nodes) return false;
BatLoadTotal(t) ==
    /\ At(t, "bat_load_total")
    /\ IF total_nodes + loc[t].batch_size > max_nodes
       THEN Finish(t, BatchResult(loc[t], FALSE, "total"))
       ELSE Goto(t, "bat_claim") /\ UNCHANGED <<loc, res, hist>>
    /\ UNCHANGED <<arenaVars, indexVars, ghostVars, envVars>>

\* The range test that refuses a batch ending at the last slot.
RangeFailsAtEnd(start_index, batch_size) == start_index + batch_size >= max_nodes

\* The range test on the first slot alone.
RangeFailsAtStart(start_index, batch_size) == start_index > max_nodes

\* if (start_index + batch_size > max_nodes) return false;
RangeFails(start_index, batch_size) == start_index + batch_size > max_nodes

\* start_index = pool_index.fetch_add(batch_size);
BatClaim(t) ==
    /\ At(t, "bat_claim")
    /\ LET l == [loc[t] EXCEPT !.start_index = pool_index]
       IN /\ pool_index' = PoolIndexAfter(l.batch_size)
          /\ IF RangeFails(l.start_index, l.batch_size)
             THEN Finish(t, BatchResult(l, FALSE, "arena"))
             ELSE Goto(t, "bat_item") /\ SetLoc(t, l) /\ UNCHANGED <<res, hist>>
    /\ UNCHANGED <<max_nodes, total_nodes, node_pool, indexVars, ghostVars, envVars>>

\* The slot of every item taken to be the first of the range.
BatchSlotFirst(start_index, i) == start_index

\* node_pool[start_index + i]
BatchSlot(start_index, i) == start_index + i

\* One turn of the loop over the batch: the fields of node_pool[start_index + i]
\* are written from batch[i]; after the last item total_nodes.fetch_add(batch_size)
\* and return true.
BatItem(t) ==
    /\ At(t, "bat_item")
    /\ LET l == loc[t]
       IN IF l.i < l.batch_size
          THEN /\ \E v \in inputs.values, k \in inputs.keys[Turn(t)],
                     r \in inputs.records :
                     LET li == [l EXCEPT !.value = v, !.key = k,
                                         !.priority = r.priority, !.expiry = r.expiry,
                                         !.node = BatchSlot(l.start_index, l.i),
                                         !.items = Append(@,
                                             [value |-> v, key |-> k,
                                              priority |-> r.priority,
                                              expiry |-> r.expiry])]
                     IN WriteNode(li.node, li) /\ SetLoc(t, li)
               /\ Goto(t, "goc_find")
               /\ UNCHANGED <<total_nodes, res, hist, batTrue>>
          ELSE /\ total_nodes' = TotalNodesAfter(l.batch_size)
               /\ batTrue' = batTrue + l.batch_size
               /\ Finish(t, BatchResult(l, TRUE, "ok"))
               /\ UNCHANGED <<node_pool, slotKey, writes, retCount>>
    /\ UNCHANGED <<max_nodes, pool_index, indexVars, insTrue, insFull, okSlots, envVars>>

\* -------------------------------------- RadialCircularList::get_highest_priority

\* The lifetime of the record in slot n has elapsed at clock reading t.
Elapsed(n, t) == t - node_pool[n].timestamp_ns > node_pool[n].expiry_time_ns

\* The records in the cells of bucket m that are live at the clock reading.
LiveIn(m) ==
    {n \in {HeapOf(m)[i] : i \in 1 .. Len(HeapOf(m))} \ {Null} : ~Elapsed(n, now)}

MaxPriority(ns) ==
    IF ns = {} THEN -1
    ELSE CHOOSE p \in {node_pool[n].priority : n \in ns} :
            \A n \in ns : node_pool[n].priority <= p

NoneResult(l, why) ==
    [Res0 EXCEPT !.op = "get", !.key = l.key, !.why = why, !.mid = l.mid,
                 !.lost = l.lost,
                 !.best = IF l.mid = NoBucket THEN -1 ELSE MaxPriority(LiveIn(l.mid))]

\* get_highest_priority returns r: to its caller, or into results[i] of
\* get_highest_priority_batch, which goes on with the next key.
GetReturn(t, l, r) ==
    IF l.op = "get"
    THEN Finish(t, r)
    ELSE /\ Goto(t, "gb_item")
         /\ SetLoc(t, [Loc0 EXCEPT !.op = l.op, !.keys = l.keys, !.i = l.i + 1,
                                   !.results = Append(l.results, r)])
         /\ UNCHANGED <<res, hist>>

\* mid = midpoints.get(midpoint); return mid ? ... : nullptr;
GetLookup(t) ==
    /\ At(t, "get_lookup")
    /\ LET l == [loc[t] EXCEPT !.mid = FindInList(buckets[hash(loc[t].key)], loc[t].key)]
       IN IF l.mid = NoBucket
          THEN GetReturn(t, l, NoneResult(l, "unknown"))
          ELSE Goto(t, "hp_empty") /\ SetLoc(t, l) /\ UNCHANGED <<res, hist>>
    /\ UNCHANGED <<arenaVars, indexVars, ghostVars, envVars>>

\* LockFreeHeap::empty() with one record too few (for comparison).
empty_below_two(m) == bnodes[m].size <= 1

\* LockFreeHeap::empty(): size_.load() == 0
empty(m) == bnodes[m].size = 0

\* while (!nodes.empty())
HpEmpty(t) ==
    /\ At(t, "hp_empty")
    /\ IF empty(loc[t].mid)
       THEN GetReturn(t, loc[t], NoneResult(loc[t], "empty"))
       ELSE Goto(t, "pop_load_size") /\ UNCHANGED <<loc, res, hist>>
    /\ UNCHANGED <<arenaVars, indexVars, ghostVars, envVars>>

\* current_size = size_.load(); if (current_size == 0) return nullptr;
PopLoadSize(t) ==
    /\ At(t, "pop_load_size")
    /\ LET l == [loc[t] EXCEPT !.current_size = bnodes[loc[t].mid].size]
       IN IF l.current_size = 0
          THEN Goto(t, "hp_test") /\ SetLoc(t, [l EXCEPT !.node = Null])
          ELSE Goto(t, "pop_load_top") /\ SetLoc(t, l)
    /\ UNCHANGED <<arenaVars, indexVars, ghostVars, envVars, res, hist>>

\* top = heap[0].node.load(); if (!top) continue;
PopLoadTop(t) ==
    /\ At(t, "pop_load_top")
    /\ LET l == [loc[t] EXCEPT !.top = Cell(loc[t].mid, 0)]
       IN IF l.top = Null
          THEN Goto(t, "pop_load_size") /\ UNCHANGED loc
          ELSE Goto(t, "pop_cas") /\ SetLoc(t, l)
    /\ UNCHANGED <<arenaVars, indexVars, ghostVars, envVars, res, hist>>

\* size_.compare_exchange_weak(current_size, current_size - 1)
PopCas(t) ==
    /\ At(t, "pop_cas")
    /\ LET l == loc[t]
       IN \E ok \in WeakCasOutcomes(bnodes[l.mid].size = l.current_size) :
             IF ok
             THEN /\ bnodes' = [bnodes EXCEPT ![l.mid].size = l.current_size - 1]
                  /\ Goto(t, "pop_exchange")
             ELSE /\ Goto(t, "pop_load_size")
                  /\ UNCHANGED bnodes
    /\ UNCHANGED <<arenaVars, buckets, ghostVars, envVars, loc, res, hist>>

\* last = heap[current_size - 1].node.exchange(nullptr);
PopExchange(t) ==
    /\ At(t, "pop_exchange")
    /\ LET l == [loc[t] EXCEPT !.last = Cell(loc[t].mid, loc[t].current_size - 1)]
       IN /\ SetCell(l.mid, l.current_size - 1, Null)
          /\ IF l.current_size > 1
             THEN Goto(t, "pop_store_top") /\ SetLoc(t, l)
             ELSE Goto(t, "hp_test") /\ SetLoc(t, [l EXCEPT !.node = l.top])
    /\ UNCHANGED <<arenaVars, buckets, ghostVars, envVars, res, hist>>

\* heap[0].node.store(last); sift_down(0) begins.
PopStoreTop(t) ==
    /\ At(t, "pop_store_top")
    /\ SetCell(loc[t].mid, 0, loc[t].last)
    /\ SetLoc(t, [loc[t] EXCEPT !.index = 0])
    /\ Goto(t, "sd_load_size")
    /\ UNCHANGED <<arenaVars, buckets, ghostVars, envVars, res, hist>>

\* -------------------------------------------------- LockFreeHeap::sift_down

\* pop returns top to get_highest_priority_node.
PopReturn(t, l) == Goto(t, "hp_test") /\ SetLoc(t, [l EXCEPT !.node = l.top])

\* current_size = size_.load();
SdLoadSize(t) ==
    /\ At(t, "sd_load_size")
    /\ SetLoc(t, [loc[t] EXCEPT !.sd_size = bnodes[loc[t].mid].size])
    /\ Goto(t, "sd_load_current")
    /\ UNCHANGED <<arenaVars, indexVars, ghostVars, envVars, res, hist>>

\* max_index = index; current = heap[index].node.load();
SdLoadCurrent(t) ==
    /\ At(t, "sd_load_current")
    /\ SetLoc(t, [loc[t] EXCEPT !.current = Cell(loc[t].mid, loc[t].index),
                                !.max_index = loc[t].index])
    /\ Goto(t, "sd_left")
    /\ UNCHANGED <<arenaVars, indexVars, ghostVars, envVars, res, hist>>

\* a->priority > b->priority
Higher(a, b) == node_pool[a].priority > node_pool[b].priority

\* if (left < current_size) { left_node = heap[left].node.load();
\*     if (left_node && left_node->priority > current->priority) max_index = left; }
SdLeft(t) ==
    /\ At(t, "sd_left")
    /\ LET l == loc[t]
           left == Left(l.index)
           left_node == IF left < l.sd_size THEN Cell(l.mid, left) ELSE Null
       IN IF left_node = Null
          THEN /\ Goto(t, "sd_right")
               /\ UNCHANGED <<loc, crashed, faults>>
          ELSE \E o \in ReadOutcomes({left_node, l.current},
                                      IF l.current = Null THEN FALSE
                                      ELSE Higher(left_node, l.current)) :
                 /\ Faulting(t, {left_node, l.current}, o)
                 /\ CASE o = "fault" -> UNCHANGED <<pc, loc>>
                      [] o = "yes" -> /\ Goto(t, "sd_right")
                                      /\ SetLoc(t, [l EXCEPT !.max_index = left])
                      [] o = "no" -> Goto(t, "sd_right") /\ UNCHANGED loc
    /\ UNCHANGED <<arenaVars, indexVars, ghostVars, now, phase, budget, inputs, partVars, res,
                   hist>>

\* After the comparisons: if (max_index == index) break; else the swap.
SdDecide(t, l) ==
    IF l.max_index = l.index THEN PopReturn(t, l)
    ELSE Goto(t, "sd_load_max") /\ SetLoc(t, l)

\* if (right < current_size) { right_node = heap[right].node.load(); ...
SdRight(t) ==
    /\ At(t, "sd_right")
    /\ LET right == Right(loc[t].index)
           l == [loc[t] EXCEPT !.right_node =
                    IF right < loc[t].sd_size THEN Cell(loc[t].mid, right) ELSE Null]
       IN IF l.right_node = Null
          THEN SdDecide(t, l)
          ELSE Goto(t, "sd_right_cmp") /\ SetLoc(t, l)
    /\ UNCHANGED <<arenaVars, indexVars, ghostVars, envVars, res, hist>>

\* if (right_node && right_node->priority >
\*         heap[max_index].node.load()->priority) max_index = right;
SdRightCmp(t) ==
    /\ At(t, "sd_right_cmp")
    /\ LET l == loc[t]
           m == Cell(l.mid, l.max_index)
       IN \E o \in ReadOutcomes({l.right_node, m},
                                 IF m = Null THEN FALSE ELSE Higher(l.right_node, m)) :
             /\ Faulting(t, {l.right_node, m}, o)
             /\ CASE o = "fault" -> UNCHANGED <<pc, loc>>
                  [] o = "yes" -> SdDecide(t, [l EXCEPT !.max_index = Right(l.index)])
                  [] o = "no" -> SdDecide(t, l)
    /\ UNCHANGED <<arenaVars, indexVars, ghostVars, now, phase, budget, inputs, partVars, res,
                   hist>>

\* max_node = heap[max_index].node.load();
SdLoadMax(t) ==
    /\ At(t, "sd_load_max")
    /\ SetLoc(t, [loc[t] EXCEPT !.max_node = Cell(loc[t].mid, loc[t].max_index)])
    /\ Goto(t, "sd_cas_current")
    /\ UNCHANGED <<arenaVars, indexVars, ghostVars, envVars, res, hist>>

\* heap[index].node.compare_exchange_strong(current, max_node)
SdCasCurrent(t) ==
    /\ At(t, "sd_cas_current")
    /\ LET l == loc[t]
       IN IF Cell(l.mid, l.index) = l.current
          THEN /\ SetCell(l.mid, l.index, l.max_node)
               /\ Goto(t, "sd_cas_max")
               /\ UNCHANGED loc
          ELSE PopReturn(t, l) /\ UNCHANGED bnodes
    /\ UNCHANGED <<arenaVars, buckets, ghostVars, envVars, res, hist>>

\* heap[max_index].node.compare_exchange_strong(max_node, current); index = max_index;
SdCasMax(t) ==
    /\ At(t, "sd_cas_max")
    /\ LET l == loc[t]
       IN IF Cell(l.mid, l.max_index) = l.max_node
          THEN /\ SetCell(l.mid, l.max_index, l.current)
               /\ Goto(t, "sd_load_current")
               /\ SetLoc(t, [l EXCEPT !.index = l.max_index])
          ELSE PopReturn(t, l) /\ UNCHANGED bnodes
    /\ UNCHANGED <<arenaVars, buckets, ghostVars, envVars, res, hist>>

\* ------------------------------------ MidpointNode::get_highest_priority_node

FoundResult(l, n) ==
    [Res0 EXCEPT !.op = "get", !.key = l.key, !.ok = (n # Null), !.node = n,
                 !.why = "found", !.mid = l.mid, !.lost = l.lost,
                 !.ties = IF n = Null THEN 0
                          ELSE Cardinality({o \in LiveIn(l.mid) \ {n} :
                                   node_pool[o].priority = node_pool[n].priority}),
                 !.freed = IF n = Null THEN FALSE ELSE node_pool[n].freed,
                 !.expired = IF n = Null THEN FALSE ELSE Elapsed(n, now),
                 !.best = MaxPriority(LiveIn(l.mid) \cup
                              (IF n = Null \/ Elapsed(n, now)
                               THEN {} ELSE {n}))]

\* The faults of delete through pointer n: the node was deleted before, or,
\* where the arena came from numa_alloc_onnode, was never allocated by new.
DeleteFaults(n) ==
    (IF node_pool[n].freed THEN {"double_free"} ELSE {}) \cup
    (IF inputs.numa THEN {"invalid_free"} ELSE {})

\* if (!node->is_expired()) return node; delete node;
\* The node that pop returned is read without a test for null.
HpTest(t) ==
    /\ At(t, "hp_test")
    /\ LET l == loc[t]
           n == l.node
       IN \E o \in ReadOutcomes({n}, IF n = Null THEN FALSE
                                     ELSE is_expired(node_pool[n], now)) :
             CASE o = "fault" ->
                      /\ faults' = faults \cup ReadFaults({n})
                      /\ crashed' = TRUE
                      /\ UNCHANGED <<pc, loc, res, hist, node_pool, retCount>>
               [] o = "no" ->
                      /\ faults' = faults \cup ReadFaults({n})
                      /\ crashed' = FALSE
                      /\ GetReturn(t, l, FoundResult(l, n))
                      /\ retCount' = IF n = Null THEN retCount
                                     ELSE [retCount EXCEPT ![n] = @ + 1]
                      /\ UNCHANGED node_pool
               [] o = "yes" /\ n = Null ->
                      /\ faults' = faults \cup ReadFaults({n})
                      /\ crashed' = FALSE
                      /\ Goto(t, "hp_empty")
                      /\ UNCHANGED <<loc, res, hist, node_pool, retCount>>
               [] o = "yes" /\ n # Null ->
                      /\ faults' = faults \cup ReadFaults({n}) \cup DeleteFaults(n)
                      /\ \E aborts \in IF DeleteFaults(n) = {} THEN {FALSE}
                                       ELSE {FALSE, TRUE} :
                            /\ crashed' = aborts
                            /\ IF aborts
                               THEN UNCHANGED <<pc, loc, node_pool>>
                               ELSE /\ node_pool' = [node_pool EXCEPT ![n].freed = TRUE]
                                    /\ Goto(t, "hp_empty")
                                    /\ SetLoc(t, [l EXCEPT !.lost = @ + 1])
                      /\ UNCHANGED <<res, hist, retCount>>
    /\ UNCHANGED <<max_nodes, total_nodes, pool_index, indexVars, slotKey, writes,
                   insTrue, insFull, okSlots, batTrue, now, phase, budget, inputs, partVars>>

\* ------------------------- RadialCircularList::get_highest_priority_batch

\* A thread calls get_highest_priority_batch(midpoints_batch).
CallGetBatch(t) ==
    /\ MayCall(t, "getbatch")
    /\ \E ks \in inputs.key_lists :
          SetLoc(t, [Loc0 EXCEPT !.op = "getbatch", !.keys = ks])
    /\ Goto(t, "gb_item")
    /\ Called(t)
    /\ res' = [res EXCEPT ![t] = Res0]
    /\ UNCHANGED hist
    /\ UNCHANGED <<arenaVars, indexVars, ghostVars, now, crashed, phase, inputs, partVars, faults>>

GetBatchResult(l) ==
    [Res0 EXCEPT !.op = "getbatch", !.ok = TRUE, !.keys = l.keys,
                 !.results = l.results]

\* The key of every turn taken to be the first of the list.
BatchKeyFirst(ks, i) == ks[1]

\* midpoints_batch[i]
BatchKey(ks, i) == ks[i + 1]

\* for (i = 0; i < midpoints_batch.size(); ++i)
\*     results[i] = get_highest_priority(midpoints_batch[i]);
\* return results;
GbItem(t) ==
    /\ At(t, "gb_item")
    /\ LET l == loc[t]
       IN IF l.i < Len(l.keys)
          THEN /\ Goto(t, "get_lookup")
               /\ SetLoc(t, [l EXCEPT !.key = BatchKey(l.keys, l.i)])
               /\ UNCHANGED <<res, hist>>
          ELSE Finish(t, GetBatchResult(l))
    /\ UNCHANGED <<arenaVars, indexVars, ghostVars, envVars>>

\* ------------------------------------------------------------ specifications

InsertSteps(t) ==
    \/ CallInsert(t) \/ InsLoadTotal(t) \/ InsClaim(t) \/ InsCount(t)
    \/ GocFind(t) \/ GocLoadHead(t) \/ GocCas(t)
    \/ PushLoadSize(t) \/ PushCas(t) \/ PushStore(t)

\* The steps of sift_up: taken in a heap of two cells or more, the swap where
\* a record of greater priority follows one of less.
SiftUpSteps(t) == SuLoadChild(t) \/ SuLoadParent(t)

SwapUpSteps(t) == SuCasParent(t) \/ SuCasChild(t)

BatchSteps(t) ==
    \/ CallInsertBatch(t) \/ BatLoadTotal(t) \/ BatClaim(t) \/ BatItem(t)

GetSteps(t) ==
    \/ CallGet(t) \/ GetLookup(t) \/ HpEmpty(t) \/ HpTest(t)
    \/ PopLoadSize(t) \/ PopLoadTop(t) \/ PopCas(t) \/ PopExchange(t)

GetBatchSteps(t) == CallGetBatch(t) \/ GbItem(t)

\* The steps of sift_down: taken by a pop from a heap of two records or more.
SiftDownSteps(t) ==
    \/ PopStoreTop(t) \/ SdLoadSize(t) \/ SdLoadCurrent(t) \/ SdLeft(t) \/ SdRight(t)
    \/ SdLoadMax(t) \/ SdCasCurrent(t) \/ SdCasMax(t)

\* The step of sift_down that a heap of three records or more takes.
DeepSteps(t) == SdRightCmp(t)

Turns == {"setup", "drain"} \cup Workers

\* The main thread inserts under one key of a cache of 20 slots (buckets of 2
\* cells), then one worker inserts while the other retrieves, then the main
\* thread retrieves.
RaceCalls ==
    [u \in Turns |-> CASE u = "setup" -> SetupCalls [] u = T1 -> 1 [] u = T2 -> 1
                       [] u = "drain" -> DrainCalls]

RaceInputs ==
    [ops |-> [u \in Turns |-> [c \in 1 .. RaceCalls[u] |->
                 IF u \in {"setup", T1} THEN {"insert"} ELSE {"get"}]],
     keys |-> [u \in Turns |-> {AAPL}], get_keys |-> {AAPL},
     records |-> [priority : {1, 2}, expiry : {TtlMs, TtlMin}], values |-> {100},
     batch_sizes |-> {}, max_ticks |-> 1, tick_us |-> 2000,
     spawn_after |-> SetupCalls, numa |-> FALSE]

Init == Construct(20, RaceInputs, RaceCalls)

Next ==
    \/ \E t \in Threads : \/ InsertSteps(t) \/ SiftUpSteps(t) \/ SwapUpSteps(t)
                           \/ GetSteps(t) \/ SiftDownSteps(t)
    \/ Tick \/ Spawn \/ Join

Spec == Init /\ [][Next]_vars

\* Two workers insert, singly or in batches, under one key of a cache
\* of 40 slots (buckets of 4 cells); the main thread then drains the key.
InsCalls ==
    [u \in Turns |-> CASE u = "setup" -> 1 [] u = T1 -> 1 [] u = T2 -> 1
                       [] u = "drain" -> InsDrainCalls]

InsInputs ==
    [ops |-> [u \in Turns |-> [c \in 1 .. InsCalls[u] |->
                 IF u = "drain" THEN {"get"} ELSE {"insert", "batch"}]],
     keys |-> [u \in Turns |-> {AAPL}],
     get_keys |-> {AAPL},
     records |-> [priority : {1, 2}, expiry : {TtlMin}], values |-> {100},
     batch_sizes |-> {MaxBatch}, max_ticks |-> 0, tick_us |-> 0, spawn_after |-> 1,
     numa |-> FALSE]

InitIns == Construct(40, InsInputs, InsCalls)

NextIns ==
    \/ \E t \in Threads : \/ InsertSteps(t) \/ SiftUpSteps(t) \/ SwapUpSteps(t)
                           \/ BatchSteps(t)
                           \/ GetSteps(t) \/ SiftDownSteps(t) \/ DeepSteps(t)
    \/ Spawn \/ Join

SpecIns == InitIns /\ [][NextIns]_vars

\* The same two workers on a new cache, with records of one priority and
\* without the drain: the claims of the arena alone.
ClaimCalls == [u \in Turns |-> IF u \in Workers THEN InsCalls[u] ELSE 0]

ClaimInputs ==
    [InsInputs EXCEPT !.ops = [u \in Turns |-> [c \in 1 .. ClaimCalls[u] |->
                                  {"insert", "batch"}]],
                      !.records = [priority : {1}, expiry : {TtlMin}],
                      !.spawn_after = 0]

InitClaim == Construct(40, ClaimInputs, ClaimCalls)

NextClaim ==
    \/ \E t \in Threads : InsertSteps(t) \/ SiftUpSteps(t) \/ BatchSteps(t)
    \/ Spawn \/ Join

SpecClaim == InitClaim /\ [][NextClaim]_vars

\* The main thread, turn by turn, inserts into and empties one bucket of a cache
\* of 10 slots (buckets of 1 cell), then two workers insert under two keys as
\* the arena runs out.
FillCalls ==
    [u \in Turns |-> CASE u = "setup" -> FillSetupCalls [] u = T1 -> 1 [] u = T2 -> 1
                       [] u = "drain" -> 0]

FillInputs ==
    [ops |-> [u \in Turns |-> [c \in 1 .. FillCalls[u] |->
                 IF u = "setup" /\ c % 2 = 1 THEN {"get"} ELSE {"insert"}]],
     keys |-> [u \in Turns |-> IF u = T2 THEN {ORCL} ELSE {AAPL}],
     get_keys |-> {AAPL},
     records |-> [priority : {1}, expiry : {TtlMin}], values |-> {100},
     batch_sizes |-> {}, max_ticks |-> 0, tick_us |-> 0, spawn_after |-> 0,
     numa |-> FALSE]

InitFill == Construct(10, FillInputs, FillCalls)

NextFill == (\E t \in Threads : InsertSteps(t) \/ GetSteps(t)) \/ Spawn \/ Join

SpecFill == InitFill /\ [][NextFill]_vars

\* One thread alone: it retrieves a key of a new cache of 40 slots (buckets of 4
\* cells), inserts under the key and retrieves again, while the clock may
\* advance past the short lifetime; or it inserts into a cache of 3 slots.
SeqCalls ==
    [u \in Turns |-> IF u = "setup" THEN 1 + SeqInserts + SeqGets ELSE 0]

SeqInputs ==
    [ops |-> [u \in Turns |-> [c \in 1 .. SeqCalls[u] |->
                 IF c > SeqGets /\ c <= SeqGets + SeqInserts
                 THEN {"insert"} ELSE {"get"}]],
     keys |-> [u \in Turns |-> {AAPL}],
     get_keys |-> {AAPL},
     records |-> [priority : {1, 2, 3}, expiry : {TtlMin}] \cup
                 [priority : {3}, expiry : {TtlMs}],
     values |-> {100},
     batch_sizes |-> {}, max_ticks |-> 1, tick_us |-> 2000, spawn_after |-> 0,
     numa |-> TRUE]

SmallCalls ==
    [u \in Turns |-> IF u = "setup" THEN SmallInserts ELSE 0]

SmallInputs ==
    [ops |-> [u \in Turns |-> [c \in 1 .. SmallCalls[u] |-> {"insert"}]],
     keys |-> [u \in Turns |-> {AAPL, ORCL}],
     get_keys |-> {},
     records |-> [priority : {1}, expiry : {TtlMin}], values |-> {100},
     batch_sizes |-> {}, max_ticks |-> 0, tick_us |-> 0, spawn_after |-> 0,
     numa |-> FALSE]

InitSeq ==
    \/ Construct(40, SeqInputs, SeqCalls)
    \/ Construct(3, SmallInputs, SmallCalls)

NextSeq ==
    \/ \E t \in Threads : \/ InsertSteps(t) \/ SiftUpSteps(t) \/ SwapUpSteps(t)
                           \/ GetSteps(t) \/ SiftDownSteps(t) \/ DeepSteps(t)
    \/ Tick

SpecSeq == InitSeq /\ [][NextSeq]_vars

\* One thread inserts under one key, with two values and a lifetime of 1 ms,
\* the clock advancing by 1 ms at any point, and retrieves under that key and
\* under one that was never inserted (BasicInsertAndRetrieve).
TripCalls ==
    [u \in Turns |-> IF u = "setup" THEN TripInserts + TripGets ELSE 0]

TripInputs ==
    [ops |-> [u \in Turns |-> [c \in 1 .. TripCalls[u] |->
                 IF c > TripGets THEN {"insert"} ELSE {"get"}]],
     keys |-> [u \in Turns |-> {AAPL}],
     get_keys |-> {AAPL, ORCL},
     records |-> [priority : {1, 2}, expiry : {TtlMs}],
     values |-> {100, 101},
     batch_sizes |-> {}, max_ticks |-> 1, tick_us |-> 1000, spawn_after |-> 0,
     numa |-> FALSE]

InitTrip == Construct(40, TripInputs, TripCalls)

NextTrip ==
    \/ \E t \in Threads : \/ InsertSteps(t) \/ SiftUpSteps(t) \/ SwapUpSteps(t)
                           \/ GetSteps(t) \/ SiftDownSteps(t)
    \/ Tick

SpecTrip == InitTrip /\ [][NextTrip]_vars

\* One thread calls insert_batch on a new cache and then retrieves
\* (BatchOperations): a batch under one key that fits the bucket, followed by
\* calls of get_highest_priority; a batch that overflows a bucket of one cell,
\* followed by retrievals and one insert; a batch under two keys followed by
\* calls of get_highest_priority_batch and of get_highest_priority.
BatchCalls ==
    [u \in Turns |-> IF u = "setup" THEN 1 + BatchGets ELSE 0]

BatchInputs ==
    [ops |-> [u \in Turns |-> [c \in 1 .. BatchCalls[u] |->
                 IF c = BatchCalls[u] THEN {"batch"} ELSE {"get"}]],
     keys |-> [u \in Turns |-> {AAPL}],
     get_keys |-> {AAPL},
     records |-> [priority : {1, 2}, expiry : {TtlMin}],
     values |-> {100, 101},
     batch_sizes |-> {BatchItems, BatchItems + 2},
     key_lists |-> {},
     max_ticks |-> 0, tick_us |-> 0, spawn_after |-> 0, numa |-> FALSE]

OverflowInputs ==
    [BatchInputs EXCEPT
        !.ops = [u \in Turns |-> [c \in 1 .. BatchCalls[u] |->
                    IF c = BatchCalls[u] THEN {"batch"}
                    ELSE IF c = 2 THEN {"insert"} ELSE {"get"}]],
        !.records = [priority : {1}, expiry : {TtlMin}],
        !.batch_sizes = {BatchItems}]

ListCalls ==
    [u \in Turns |-> IF u = "setup" THEN 1 + ListGets ELSE 0]

ListInputs ==
    [BatchInputs EXCEPT
        !.ops = [u \in Turns |-> [c \in 1 .. ListCalls[u] |->
                    IF c = ListCalls[u] THEN {"batch"} ELSE {"get", "getbatch"}]],
        !.keys = [u \in Turns |-> {AAPL, ORCL}],
        !.get_keys = {ORCL},
        !.values = {100},
        !.batch_sizes = {BatchItems},
        !.key_lists = {<<AAPL, AAPL>>, <<AAPL, ORCL>>, <<ORCL, AAPL, AAPL>>}]

InitBatch ==
    \/ Construct(40, BatchInputs, BatchCalls)
    \/ Construct(10, OverflowInputs, BatchCalls)
    \/ Construct(40, ListInputs, ListCalls)

NextBatch ==
    \E t \in Threads : \/ InsertSteps(t) \/ SiftUpSteps(t) \/ SwapUpSteps(t)
                        \/ BatchSteps(t) \/ GetSteps(t) \/ GetBatchSteps(t)
                        \/ SiftDownSteps(t) \/ DeepSteps(t)

SpecBatch == InitBatch /\ [][NextBatch]_vars

\* The main thread inserts under one key, then two workers retrieve under
\* that key at the same time (the consumers of ConcurrentInsertsAndRetrieves).
GetsCalls ==
    [u \in Turns |-> CASE u = "setup" -> GetsSetupCalls [] u = T1 -> 1
                       [] u = T2 -> 1 [] u = "drain" -> 0]

GetsInputs ==
    [ops |-> [u \in Turns |-> [c \in 1 .. GetsCalls[u] |->
                 IF u = "setup" THEN {"insert"} ELSE {"get"}]],
     keys |-> [u \in Turns |-> {AAPL}], get_keys |-> {AAPL},
     records |-> [priority : {1, 2}, expiry : {TtlMin}], values |-> {100},
     batch_sizes |-> {}, max_ticks |-> 0, tick_us |-> 0,
     spawn_after |-> GetsSetupCalls, numa |-> FALSE]

InitGets == Construct(30, GetsInputs, GetsCalls)

NextGets ==
    \/ \E t \in Threads : \/ InsertSteps(t) \/ SiftUpSteps(t) \/ SwapUpSteps(t)
                           \/ GetSteps(t) \/ SiftDownSteps(t)
    \/ Spawn \/ Join

SpecGets == InitGets /\ [][NextGets]_vars

\* A cache of 10 slots (buckets of 1 cell) is filled: the main thread inserts
\* twice under one key and then inserts three batches of 1 or 4 items; a worker
\* inserts while the other inserts a batch; then the main thread retrieves,
\* inserts and inserts a batch.  The records live 1 ms and the clock may
\* advance by 2 ms.
FullCalls ==
    [u \in Turns |-> CASE u = "setup" -> FullSetupCalls [] u = T1 -> 1 [] u = T2 -> 1
                       [] u = "drain" -> FullDrainCalls]

FullInputs ==
    [ops |-> [u \in Turns |-> [c \in 1 .. FullCalls[u] |->
                 CASE u = "setup" -> IF c > FullCalls[u] - 2 THEN {"insert"}
                                     ELSE {"batch"}
                   [] u = T1 -> {"insert"}
                   [] u = T2 -> {"batch"}
                   [] u = "drain" -> IF c = FullCalls[u] THEN {"get"}
                                     ELSE IF c = FullCalls[u] - 1 THEN {"insert"}
                                     ELSE {"batch"}]],
     keys |-> [u \in Turns |-> {AAPL}],
     get_keys |-> {AAPL},
     records |-> [priority : {1}, expiry : {TtlMs}],
     values |-> {100},
     batch_sizes |-> {1, 4},
     key_lists |-> {},
     max_ticks |-> 1, tick_us |-> 2000, spawn_after |-> 0, numa |-> FALSE]

InitFull == Construct(10, FullInputs, FullCalls)

NextFull ==
    \/ \E t \in Threads : InsertSteps(t) \/ BatchSteps(t) \/ GetSteps(t)
    \/ Tick \/ Spawn \/ Join

SpecFull == InitFull /\ [][NextFull]_vars

\* The main thread inserts records and batches of 1 or 4 items under one key
\* of a cache of 10 slots (buckets of 1 cell); then one worker inserts under
\* another key while the other inserts a batch.
TotalCalls ==
    [u \in Turns |-> CASE u = "setup" -> TotalSetupCalls [] u = T1 -> 1 [] u = T2 -> 1
                       [] u = "drain" -> 0]

TotalInputs ==
    [ops |-> [u \in Turns |-> [c \in 1 .. TotalCalls[u] |->
                 CASE u = T1 -> {"insert"} [] u = T2 -> {"batch"}
                   [] OTHER -> {"insert", "batch"}]],
     keys |-> [u \in Turns |-> IF u = T1 THEN {NOPE} ELSE {AAPL}],
     get_keys |-> {AAPL},
     records |-> [priority : {1}, expiry : {TtlMin}], values |-> {100},
     batch_sizes |-> {1, 4}, key_lists |-> {}, max_ticks |-> 0, tick_us |-> 0,
     spawn_after |-> 0, numa |-> FALSE]

InitTotal == Construct(10, TotalInputs, TotalCalls)

NextTotal == (\E t \in Threads : InsertSteps(t) \/ BatchSteps(t)) \/ Spawn \/ Join

SpecTotal == InitTotal /\ [][NextTotal]_vars

\* ExpiryHandling with a clock read at the boundary: one thread inserts a
\* record that lives 1 ms and retrieves, the clock advancing by 1 ms at a time,
\* so that the record is tested at the ages 0, 1 ms and 2 ms.
ExpiryCalls ==
    [u \in Turns |-> IF u = "setup" THEN 1 + ExpiryGets ELSE 0]

ExpiryInputs ==
    [ops |-> [u \in Turns |-> [c \in 1 .. ExpiryCalls[u] |->
                 IF c = ExpiryCalls[u] THEN {"insert"} ELSE {"get"}]],
     keys |-> [u \in Turns |-> {AAPL}], get_keys |-> {AAPL},
     records |-> [priority : {1}, expiry : {TtlMs}], values |-> {100},
     batch_sizes |-> {}, max_ticks |-> 2, tick_us |-> 1000, spawn_after |-> 0,
     numa |-> FALSE]

InitExpiry == Construct(20, ExpiryInputs, ExpiryCalls)

NextExpiry ==
    \/ \E t \in Threads : InsertSteps(t) \/ GetSteps(t)
    \/ Tick

SpecExpiry == InitExpiry /\ [][NextExpiry]_vars

\* ConcurrentInsertsAndRetrieves under a fair scheduler, with records of one
\* priority that do not expire: the main thread inserts, a worker inserts
\* while the other retrieves, the main thread retrieves.  Every thread that
\* can take a step takes one in the end, and a compare_exchange_weak that
\* meets the expected value again and again does not fail every time.
LiveCalls ==
    [u \in Turns |-> IF u \in Workers THEN 1 ELSE LiveMainCalls]

LiveInputs ==
    [RaceInputs EXCEPT
        !.ops = [u \in Turns |-> [c \in 1 .. LiveCalls[u] |->
                    IF u \in {"setup", T1} THEN {"insert"} ELSE {"get"}]],
        !.records = [priority : {1}, expiry : {TtlMin}],
        !.max_ticks = 0,
        !.spawn_after = 0]

InitLive == Construct(20, LiveInputs, LiveCalls)

\* With one priority sift_up and sift_down never swap.
StepOf(t) ==
    \/ InsertSteps(t) \/ SiftUpSteps(t) \/ GetSteps(t)
    \/ PopStoreTop(t) \/ SdLoadSize(t) \/ SdLoadCurrent(t)
    \/ SdLeft(t) \/ SdRight(t)

NextLive == (\E t \in Threads : StepOf(t)) \/ Spawn \/ Join

\* A compare_exchange_weak of thread t succeeds.
WeakCasSucceeds(t) ==
    \/ GocCas(t) /\ pc'[t] = "push_load_size"
    \/ PushCas(t) /\ pc'[t] = "push_store"
    \/ PopCas(t) /\ pc'[t] = "pop_exchange"

Fairness ==
    /\ \A t \in Threads : WF_vars(StepOf(t))
    /\ SF_vars(\E t \in Threads : WeakCasSucceeds(t))
    /\ WF_vars(Spawn) /\ WF_vars(Join)

SpecLive == InitLive /\ [][NextLive]_vars /\ Fairness

\* ------------------------------------------------------------ MemoryManager

\* The owner of a MemoryManager constructs it, calls allocate_node,
\* deallocate_node and mark_for_cleanup on it and destroys it, with no call
\* running; the manager's cleanup thread runs beside the owner.  A critical
\* section of expired_mutex_ is one step.  A Node* is a number: node_pool_[i]
\* is i + 1, the nodes of the fallback allocation follow.  total_memory_usage_
\* is an unsigned counter: a value below zero stands for the wrapped one.

\* CacheConfig::validate_config without the test of its last member.
validate_config_five(c) ==
    /\ c.max_nodes > 0 /\ c.cleanup_interval_ms > 0 /\ c.max_memory_mb > 0
    /\ c.num_worker_threads > 0 /\ c.batch_size > 0

\* CacheConfig::validate_config
validate_config(c) ==
    /\ c.max_nodes > 0 /\ c.cleanup_interval_ms > 0 /\ c.max_memory_mb > 0
    /\ c.num_worker_threads > 0 /\ c.batch_size > 0 /\ c.hash_table_buckets > 0

\* The members of a MemoryManager as their initializers leave them, config_
\* copied from the argument.
NewManager(config) ==
    [config_ |-> config, shutdown_ |-> FALSE, cleanup_thread_ |-> "none",
     node_pool_ |-> << >>, pool_index_ |-> 0, allocated_nodes_ |-> 0,
     expired_nodes_ |-> << >>, total_memory_usage_ |-> 0,
     memory_blocks_ |-> << >>, cleanup_cycles_ |-> 0]

\* The owner enters the constructor and may make calls calls; the worker does
\* not exist.  held are the nodes allocate_node gave the owner; released the
\* releases of each node to the allocator, in order, with who released it;
\* marked the nodes given to mark_for_cleanup; notified whether a notification
\* of cleanup_cv_ has reached the worker in its wait; stop_found where the
\* notify_all of stop_cleanup_thread found the worker.
NewOwner(calls) ==
    [pc |-> "ctor", wpc |-> "none", calls |-> calls, thrown |-> "",
     notified |-> FALSE, stop_found |-> "",
     nodes_to_cleanup |-> << >>, emergency_queue |-> << >>, i |-> 0,
     held |-> {}, marked |-> {}, released |-> << >>, aborted |-> FALSE,
     callers |-> << >>]

\* MemoryManager(config) is entered with one of configs.
ConstructManager(configs, calls) ==
    /\ mgr \in {NewManager(c) : c \in configs}
    /\ mth = NewOwner(calls)

\* The cache and the filter, which no step of a manager touches.
cacheVars == <<max_nodes, total_nodes, pool_index, node_pool, buckets, bnodes, now,
               crashed, pc, loc, phase, budget, inputs, res, slotKey, writes,
               retCount, insTrue, insFull, okSlots, batTrue, hist, faults>>

besideManager == <<cacheVars, bf, bth, q, qth>>

Owner(label) == ~mth.aborted /\ mth.pc = label
Worker(label) == ~mth.aborted /\ mth.wpc = label

\* if (!config_.validate_config()) throw std::invalid_argument(...);
MmValidate ==
    /\ UNCHANGED besideManager
    /\ Owner("ctor")
    /\ mth' = IF validate_config(mgr.config_)
              THEN [mth EXCEPT !.pc = "ctor_pool"]
              ELSE [mth EXCEPT !.pc = "threw", !.thrown = "invalid_argument"]
    /\ UNCHANGED mgr

\* The pre-allocation of the node pool: numa_allocate adds sizeof(Node) to
\* total_memory_usage_ and the loop adds it again.
MmPreallocate ==
    /\ UNCHANGED besideManager
    /\ Owner("ctor_pool")
    /\ mgr' = IF mgr.config_.enable_memory_pool
              THEN [mgr EXCEPT
                      !.node_pool_ = [i \in 1 .. mgr.config_.max_nodes |-> i],
                      !.total_memory_usage_ =
                          @ + 2 * NODE_BYTES * mgr.config_.max_nodes]
              ELSE mgr
    /\ mth' = [mth EXCEPT !.pc = "ctor_start"]

\* shutdown_.store(false); cleanup_thread_ = std::thread(cleanup_worker)
start_cleanup_thread ==
    /\ UNCHANGED besideManager
    /\ Owner("ctor_start")
    /\ mgr' = [mgr EXCEPT !.shutdown_ = FALSE, !.cleanup_thread_ = "running"]
    /\ mth' = [mth EXCEPT !.pc = "live", !.wpc = "test"]

\* allocated_nodes_ < max_nodes && total_memory_usage_ < max_memory_mb * 1024 * 1024
is_memory_available ==
    /\ mgr.allocated_nodes_ < mgr.config_.max_nodes
    /\ mgr.total_memory_usage_ >= 0
    /\ mgr.total_memory_usage_ < mgr.config_.max_memory_mb * BYTES_PER_MB

\* allocate_node: if (!is_memory_available()) return nullptr;
AllocCheck ==
    /\ UNCHANGED besideManager
    /\ Owner("live") /\ mth.calls > 0
    /\ mth' = IF is_memory_available
              THEN [mth EXCEPT !.pc = "alloc_take", !.calls = @ - 1]
              ELSE [mth EXCEPT !.calls = @ - 1]
    /\ UNCHANGED mgr

\* allocate_node: a node of the pool while pool_index_ is within it, a node
\* from numa_allocate, recorded in memory_blocks_, otherwise.
AllocTake ==
    /\ UNCHANGED besideManager
    /\ Owner("alloc_take")
    /\ IF mgr.config_.enable_memory_pool /\ mgr.pool_index_ < Len(mgr.node_pool_)
       THEN /\ mgr' = [mgr EXCEPT !.pool_index_ = @ + 1, !.allocated_nodes_ = @ + 1]
            /\ mth' = [mth EXCEPT !.pc = "live",
                          !.held = @ \cup {mgr.node_pool_[mgr.pool_index_ + 1]}]
       ELSE LET node == Len(mgr.node_pool_) + Len(mgr.memory_blocks_) + 1
            IN /\ mgr' = [mgr EXCEPT !.total_memory_usage_ = @ + NODE_BYTES,
                                     !.allocated_nodes_ = @ + 1,
                                     !.memory_blocks_ = Append(@, node)]
               /\ mth' = [mth EXCEPT !.pc = "live", !.held = @ \cup {node}]

\* The worker has locked expired_mutex_ for its wait and not yet released it.
WorkerHoldsMutex == mth.wpc = "blocking"

\* cleanup_cv_.notify_one() / notify_all(): a notification reaches the worker
\* when it is blocked in its wait, and is lost otherwise.
Notified == mth.notified \/ mth.wpc = "blocked"

\* deallocate_node(node): allocated_nodes_.fetch_sub(1); mark_for_cleanup(node);
deallocate_node ==
    /\ UNCHANGED besideManager
    /\ Owner("live") /\ mth.calls > 0 /\ ~WorkerHoldsMutex
    /\ \E node \in mth.held :
          /\ mgr' = [mgr EXCEPT !.allocated_nodes_ = @ - 1,
                                !.expired_nodes_ = Append(@, node)]
          /\ mth' = [mth EXCEPT !.calls = @ - 1, !.held = @ \ {node},
                                !.marked = @ \cup {node},
                                !.notified = Notified]

\* mark_for_cleanup(node): expired_nodes_.push(node); cleanup_cv_.notify_one(),
\* under expired_mutex_.
mark_for_cleanup ==
    /\ UNCHANGED besideManager
    /\ Owner("live") /\ mth.calls > 0 /\ ~WorkerHoldsMutex
    /\ \E node \in mth.held :
          /\ mgr' = [mgr EXCEPT !.expired_nodes_ = Append(@, node)]
          /\ mth' = [mth EXCEPT !.calls = @ - 1, !.held = @ \ {node},
                                !.marked = @ \cup {node},
                                !.notified = Notified]

\* cleanup_worker: while (!shutdown_.load())
WorkerTest ==
    /\ UNCHANGED besideManager
    /\ Worker("test")
    /\ mgr.shutdown_ \/ mgr.cleanup_cycles_ < MaxCycles
    /\ mth' = [mth EXCEPT !.wpc = IF mgr.shutdown_ THEN "exited" ELSE "collect"]
    /\ UNCHANGED mgr

Min(a, b) == IF a < b THEN a ELSE b

\* cleanup_expired_nodes: under expired_mutex_ the first
\* min(size, max_expired_nodes_per_cleanup) nodes move to nodes_to_cleanup.
CleanupCollect ==
    /\ UNCHANGED besideManager
    /\ Worker("collect")
    /\ LET cleanup_count == Min(Len(mgr.expired_nodes_),
                                mgr.config_.max_expired_nodes_per_cleanup)
       IN /\ mth' = [mth EXCEPT !.wpc = "release",
                        !.nodes_to_cleanup = SubSeq(mgr.expired_nodes_, 1, cleanup_count)]
          /\ mgr' = [mgr EXCEPT !.expired_nodes_ =
                        SubSeq(@, cleanup_count + 1, Len(@))]

\* node->~Node(); numa_deallocate(node, sizeof(Node)), by who, with bytes
\* taken from total_memory_usage_; th is the thread state the step leaves.
\* Releasing a node that has been released is a double free: the process may
\* abort.
Release(node, who, bytes, th) ==
    LET before == IF node \in DOMAIN th.released THEN th.released[node] ELSE << >>
    IN /\ mgr' = [mgr EXCEPT !.total_memory_usage_ = @ - bytes]
       /\ \E aborts \in IF before = << >> THEN {FALSE} ELSE {FALSE, TRUE} :
             mth' = [th EXCEPT !.released = Put(@, node, Append(before, who)),
                               !.aborted = aborts]

\* cleanup_expired_nodes: a node of nodes_to_cleanup is released and
\* sizeof(Node) taken from total_memory_usage_ once more; after the last,
\* cleanup_cycles_.fetch_add(1).
CleanupRelease ==
    /\ UNCHANGED besideManager
    /\ Worker("release")
    /\ IF mth.nodes_to_cleanup # << >>
       THEN Release(Head(mth.nodes_to_cleanup), "worker", 2 * NODE_BYTES,
                    [mth EXCEPT !.nodes_to_cleanup = Tail(@)])
       ELSE /\ mgr' = [mgr EXCEPT !.cleanup_cycles_ = @ + 1]
            /\ mth' = [mth EXCEPT !.wpc = "wait"]

\* The predicate of the worker's wait.
\* [this] { return shutdown_.load() || !expired_nodes_.empty(); }
WaitPredicate == mgr.shutdown_ \/ mgr.expired_nodes_ # << >>

\* cleanup_cv_.wait_for(lock, cleanup_interval_ms, predicate): the worker
\* locks expired_mutex_ and tests the predicate; wait_for returns when it is
\* true.
WorkerWait ==
    /\ UNCHANGED besideManager
    /\ Worker("wait")
    /\ mth' = [mth EXCEPT !.wpc = IF WaitPredicate THEN "test" ELSE "blocking"]
    /\ UNCHANGED mgr

\* wait_for: the worker releases the mutex and blocks, in one step.
WorkerBlock ==
    /\ UNCHANGED besideManager
    /\ Worker("blocking")
    /\ mth' = [mth EXCEPT !.wpc = "blocked", !.notified = FALSE]
    /\ UNCHANGED mgr

\* wait_for: a notified worker tests the predicate again and blocks again
\* when it is false.
WorkerNotified ==
    /\ UNCHANGED besideManager
    /\ Worker("blocked") /\ mth.notified
    /\ mth' = [mth EXCEPT !.notified = FALSE,
                          !.wpc = IF WaitPredicate THEN "test" ELSE "blocked"]
    /\ UNCHANGED mgr

\* A wait with no time limit.
NeverTimesOut(cleanup_interval_ms) == FALSE

\* The cleanup interval passes while the worker is blocked.
MayTimeOut(cleanup_interval_ms) == cleanup_interval_ms >= 0

\* wait_for returns because cleanup_interval_ms have passed.
WorkerTimeout ==
    /\ UNCHANGED besideManager
    /\ Worker("blocked") /\ MayTimeOut(mgr.config_.cleanup_interval_ms)
    /\ mth' = [mth EXCEPT !.notified = FALSE, !.wpc = "test"]
    /\ UNCHANGED mgr

\* ~MemoryManager, stop_cleanup_thread: shutdown_.store(true); notify_all();
\* neither under expired_mutex_.
stop_cleanup_thread ==
    /\ UNCHANGED besideManager
    /\ Owner("live")
    /\ mgr' = [mgr EXCEPT !.shutdown_ = TRUE]
    /\ mth' = [mth EXCEPT !.pc = "dtor_join", !.notified = Notified,
                          !.stop_found = mth.wpc]

\* cleanup_thread_.join() returns when the worker has left its loop.
DtorJoin ==
    /\ UNCHANGED besideManager
    /\ Owner("dtor_join") /\ mth.wpc = "exited"
    /\ mgr' = [mgr EXCEPT !.cleanup_thread_ = "joined"]
    /\ mth' = [mth EXCEPT !.pc = "dtor_swap"]

\* emergency_cleanup: emergency_queue.swap(expired_nodes_), under the mutex.
EmergencySwap ==
    /\ UNCHANGED besideManager
    /\ Owner("dtor_swap")
    /\ mgr' = [mgr EXCEPT !.expired_nodes_ = << >>]
    /\ mth' = [mth EXCEPT !.pc = "dtor_sweep", !.emergency_queue = mgr.expired_nodes_]

\* emergency_cleanup: a node of emergency_queue is released and sizeof(Node)
\* taken from total_memory_usage_ once more.
EmergencyRelease ==
    /\ UNCHANGED besideManager
    /\ Owner("dtor_sweep")
    /\ IF mth.emergency_queue # << >>
       THEN Release(Head(mth.emergency_queue), "sweep", 2 * NODE_BYTES,
                    [mth EXCEPT !.emergency_queue = Tail(@)])
       ELSE /\ mth' = [mth EXCEPT !.pc = "dtor_pool", !.i = 0]
            /\ UNCHANGED mgr

\* ~MemoryManager: for (auto node : node_pool_) numa_deallocate(node, ...)
DtorPool ==
    /\ UNCHANGED besideManager
    /\ Owner("dtor_pool")
    /\ IF mth.i < Len(mgr.node_pool_)
       THEN Release(mgr.node_pool_[mth.i + 1], "pool", NODE_BYTES,
                    [mth EXCEPT !.i = @ + 1])
       ELSE /\ mth' = [mth EXCEPT !.pc = "dtor_blocks", !.i = 0]
            /\ UNCHANGED mgr

\* ~MemoryManager: for (block : memory_blocks_) numa_deallocate(block.ptr, ...)
DtorBlocks ==
    /\ UNCHANGED besideManager
    /\ Owner("dtor_blocks")
    /\ IF mth.i < Len(mgr.memory_blocks_)
       THEN Release(mgr.memory_blocks_[mth.i + 1], "blocks", NODE_BYTES,
                    [mth EXCEPT !.i = @ + 1])
       ELSE /\ mth' = [mth EXCEPT !.pc = "destroyed"]
            /\ UNCHANGED mgr

\* No cache is built.
NoCache ==
    ConstructCache(0, [ops |-> << >>], [u \in Turns |-> 0])

ManagerSteps ==
    \/ MmValidate \/ MmPreallocate \/ start_cleanup_thread
    \/ WorkerTest \/ CleanupCollect \/ CleanupRelease
    \/ WorkerWait \/ WorkerBlock \/ WorkerNotified \/ WorkerTimeout
    \/ stop_cleanup_thread \/ DtorJoin \/ EmergencySwap \/ EmergencyRelease
    \/ DtorPool \/ DtorBlocks

CallerSteps == AllocCheck \/ AllocTake \/ deallocate_node \/ mark_for_cleanup

\* Every configuration with the six validated members in 0 .. MaxConfig: the
\* manager is constructed and, where the constructor returns, destroyed.
Configs ==
    [max_nodes : 0 .. MaxConfig, cleanup_interval_ms : 0 .. MaxConfig,
     max_memory_mb : 0 .. MaxConfig, num_worker_threads : 0 .. MaxConfig,
     batch_size : 0 .. MaxConfig, hash_table_buckets : 0 .. MaxConfig,
     enable_memory_pool : {TRUE}, max_expired_nodes_per_cleanup : {1000}]

InitConfig ==
    /\ NoCache /\ ConstructManager(Configs, 0)
    /\ bf = Unbuilt /\ bth = Unbuilt /\ q = Unbuilt /\ qth = Unbuilt

NextConfig == ManagerSteps

SpecConfig == InitConfig /\ [][NextConfig]_vars

\* A manager of two nodes, with and without the pool, a worker that takes one
\* node or every node of the queue in a cycle, and an owner that makes
\* MmCalls calls and destroys the manager at any point between them.
CleanupConfigs ==
    [max_nodes : {2}, cleanup_interval_ms : {1000}, max_memory_mb : {1},
     num_worker_threads : {4}, batch_size : {100}, hash_table_buckets : {256},
     enable_memory_pool : {TRUE, FALSE}, max_expired_nodes_per_cleanup : {1, 1000}]

InitCleanup ==
    /\ NoCache /\ ConstructManager(CleanupConfigs, MmCalls)
    /\ bf = Unbuilt /\ bth = Unbuilt /\ q = Unbuilt /\ qth = Unbuilt

NextCleanup == ManagerSteps \/ CallerSteps

SpecCleanup == InitCleanup /\ [][NextCleanup]_vars

\* The worker thread is scheduled again and again, the interval of a timed
\* wait passes, and a join returns once the thread has ended.
WorkerSteps ==
    \/ WorkerTest \/ CleanupCollect \/ CleanupRelease
    \/ WorkerWait \/ WorkerBlock \/ WorkerNotified \/ WorkerTimeout

SpecStop ==
    InitCleanup /\ [][NextCleanup]_vars /\ WF_vars(WorkerSteps) /\ WF_vars(DtorJoin)

\* ---------------------------------------- concurrent callers of a manager

\* A thread that calls allocate_node and deallocate_node beside others: its
\* position in allocate_node, the calls it has left and the index its
\* fetch_add returned.
NewCaller(calls) == [pc |-> "idle", calls |-> calls, index |-> 0]

Caller(c, label) ==
    /\ ~mth.aborted /\ mth.pc = "live"
    /\ c \in DOMAIN mth.callers /\ mth.callers[c].pc = label

\* allocate_node: if (!is_memory_available()) return nullptr;
AllocateAvailable(c) ==
    /\ UNCHANGED besideManager
    /\ Caller(c, "idle") /\ mth.callers[c].calls > 0
    /\ mth' = [mth EXCEPT !.callers[c].calls = @ - 1,
                          !.callers[c].pc =
                              IF is_memory_available THEN "pool_load" ELSE "idle"]
    /\ UNCHANGED mgr

\* if (config_.enable_memory_pool && pool_index_.load() < node_pool_.size())
AllocatePoolLoad(c) ==
    /\ UNCHANGED besideManager
    /\ Caller(c, "pool_load")
    /\ mth' = [mth EXCEPT !.callers[c].pc =
                   IF /\ mgr.config_.enable_memory_pool
                      /\ mgr.pool_index_ < Len(mgr.node_pool_)
                   THEN "fetch_add" ELSE "fallback"]
    /\ UNCHANGED mgr

\* size_t index = pool_index_.fetch_add(1);
AllocateFetchAdd(c) ==
    /\ UNCHANGED besideManager
    /\ Caller(c, "fetch_add")
    /\ mgr' = [mgr EXCEPT !.pool_index_ = @ + 1]
    /\ mth' = [mth EXCEPT !.callers[c].pc = "index_test",
                          !.callers[c].index = mgr.pool_index_]

\* if (index < node_pool_.size()) { allocated_nodes_.fetch_add(1);
\* return node_pool_[index]; }
AllocateIndexTest(c) ==
    /\ UNCHANGED besideManager
    /\ Caller(c, "index_test")
    /\ IF mth.callers[c].index < Len(mgr.node_pool_)
       THEN /\ mgr' = [mgr EXCEPT !.allocated_nodes_ = @ + 1]
            /\ mth' = [mth EXCEPT
                          !.callers[c].pc = "idle",
                          !.held = @ \cup {mgr.node_pool_[mth.callers[c].index + 1]}]
       ELSE /\ mth' = [mth EXCEPT !.callers[c].pc = "fallback"]
            /\ UNCHANGED mgr

\* The fallback: numa_allocate(sizeof(Node)), allocated_nodes_.fetch_add(1),
\* memory_blocks_.emplace_back(node, ...) under memory_mutex_.
AllocateFallback(c) ==
    /\ UNCHANGED besideManager
    /\ Caller(c, "fallback")
    /\ LET node == Len(mgr.node_pool_) + Len(mgr.memory_blocks_) + 1
       IN /\ mgr' = [mgr EXCEPT !.total_memory_usage_ = @ + NODE_BYTES,
                                !.allocated_nodes_ = @ + 1,
                                !.memory_blocks_ = Append(@, node)]
          /\ mth' = [mth EXCEPT !.callers[c].pc = "idle", !.held = @ \cup {node}]

\* deallocate_node(node) of a node some allocate_node has returned and no
\* deallocate_node has been given: allocated_nodes_.fetch_sub(1);
\* mark_for_cleanup(node).
CallerDeallocate(c) ==
    /\ UNCHANGED besideManager
    /\ Caller(c, "idle") /\ mth.callers[c].calls > 0 /\ ~WorkerHoldsMutex
    /\ \E node \in mth.held :
          /\ mgr' = [mgr EXCEPT !.allocated_nodes_ = @ - 1,
                                !.expired_nodes_ = Append(@, node)]
          /\ mth' = [mth EXCEPT !.callers[c].calls = @ - 1,
                                !.held = @ \ {node}, !.marked = @ \cup {node},
                                !.notified = Notified]

ConcurrentSteps(c) ==
    \/ AllocateAvailable(c) \/ AllocatePoolLoad(c) \/ AllocateFetchAdd(c)
    \/ AllocateIndexTest(c) \/ AllocateFallback(c) \/ CallerDeallocate(c)

\* A manager of two nodes, with and without the pool, used by two threads
\* that make AllocCalls calls each beside the cleanup worker.
AllocConfigs ==
    [max_nodes : {2}, cleanup_interval_ms : {1000}, max_memory_mb : {1},
     num_worker_threads : {4}, batch_size : {100}, hash_table_buckets : {256},
     enable_memory_pool : {TRUE, FALSE}, max_expired_nodes_per_cleanup : {1000}]

InitAlloc ==
    /\ NoCache
    /\ mgr \in {NewManager(c) : c \in AllocConfigs}
    /\ mth = [NewOwner(0) EXCEPT !.callers = [c \in Workers |-> NewCaller(AllocCalls)]]
    /\ bf = Unbuilt /\ bth = Unbuilt /\ q = Unbuilt /\ qth = Unbuilt

NextAlloc ==
    \/ MmValidate \/ MmPreallocate \/ start_cleanup_thread
    \/ WorkerSteps
    \/ \E c \in Workers : ConcurrentSteps(c)

SpecAlloc == InitAlloc /\ [][NextAlloc]_vars


\* ---------------------------------------------------------- LockFreeQueue<T>

\* Node* are 1 .. QueueNodes, QNull is nullptr.  A node is "unused" until a
\* new expression returns it, "live" then, and "deleted" after delete; a new
\* expression may return the address of a deleted node again.  T is int and
\* every enqueue is given a value of its own.  free_count_ below zero stands
\* for the size_t that wrapped.

besideQueue == <<cacheVars, mgr, mth, bf, bth>>

QNull == 0
QThreads == Workers

\* Node() : next(nullptr) {}
NewQNode == [data |-> 0, next |-> QNull, state |-> "unused"]

\* LockFreeQueue(): head_ and tail_ are a new dummy node, the free list is
\* empty.
NewQueue ==
    [head_ |-> 1, tail_ |-> 1, free_list_ |-> QNull, free_count_ |-> 0,
     node |-> [n \in 1 .. QueueNodes |->
                  IF n = 1 THEN [NewQNode EXCEPT !.state = "live"] ELSE NewQNode]]

QLocals0 ==
    [value |-> 0, new_node |-> QNull, tail |-> QNull, next |-> QNull,
     head |-> QNull, free_node |-> QNull, old_head |-> QNull, pending |-> {}]

\* The threads before their first call; enq and deq list the values in the
\* order in which the enqueue calls returned and the dequeue calls took them.
NewQThreads(calls) ==
    [pc |-> [t \in QThreads |-> "idle"], calls |-> [t \in QThreads |-> calls],
     l |-> [t \in QThreads |-> QLocals0], issued |-> 0,
     enq |-> << >>, deq |-> << >>, false_nonempty |-> FALSE, aborted |-> FALSE]

ConstructQueue(calls) ==
    /\ q = NewQueue
    /\ qth = NewQThreads(calls)

QAt(t, label) == ~qth.aborted /\ qth.pc[t] = label
QL(t) == qth.l[t]

\* The thread moves to label with its locals changed to l.
QGoto(t, label, l) ==
    qth' = [qth EXCEPT !.pc[t] = label, !.l[t] = l]

\* compare_exchange_weak may fail although the value compares equal.
WeakCasFails(matches) == IF matches THEN {FALSE, TRUE} ELSE {TRUE}

\* The values of the enqueue calls that have returned and of the dequeue calls
\* that have taken one.
Enqueued == {qth.enq[i].value : i \in DOMAIN qth.enq}
Dequeued == {qth.deq[i] : i \in DOMAIN qth.deq}

\* enqueue(value): Node* new_node = allocate_node(value);
\* allocate_node: Node* free_node = free_list_.load();
EnqueueCall(t) ==
    /\ UNCHANGED besideQueue
    /\ QAt(t, "idle") /\ qth.calls[t] > 0
    /\ qth' = [qth EXCEPT
                 !.calls[t] = @ - 1, !.issued = @ + 1,
                 !.pc[t] = IF q.free_list_ = QNull THEN "alloc_new" ELSE "alloc_next",
                 !.l[t] = [QLocals0 EXCEPT !.value = qth.issued + 1,
                                           !.free_node = q.free_list_]]
    /\ UNCHANGED q

\* Node* next = free_node->next.load();
AllocNext(t) ==
    /\ UNCHANGED besideQueue
    /\ QAt(t, "alloc_next")
    /\ QGoto(t, "alloc_cas", [QL(t) EXCEPT !.next = q.node[QL(t).free_node].next])
    /\ UNCHANGED q

\* if (free_list_.compare_exchange_weak(free_node, next)); a failure loads
\* free_list_ into free_node and the loop tests it again.
AllocCas(t) ==
    /\ UNCHANGED besideQueue
    /\ QAt(t, "alloc_cas")
    /\ \E fails \in WeakCasFails(q.free_list_ = QL(t).free_node) :
          IF fails
          THEN /\ QGoto(t, IF q.free_list_ = QNull THEN "alloc_new" ELSE "alloc_next",
                        [QL(t) EXCEPT !.free_node = q.free_list_])
               /\ UNCHANGED q
          ELSE /\ q' = [q EXCEPT !.free_list_ = QL(t).next]
               /\ QGoto(t, "alloc_count", QL(t))

\* free_count_.fetch_sub(1);
AllocCount(t) ==
    /\ UNCHANGED besideQueue
    /\ QAt(t, "alloc_count")
    /\ q' = [q EXCEPT !.free_count_ = @ - 1]
    /\ QGoto(t, "alloc_data", QL(t))

\* free_node->data = value;
AllocData(t) ==
    /\ UNCHANGED besideQueue
    /\ QAt(t, "alloc_data")
    /\ q' = [q EXCEPT !.node[QL(t).free_node].data = QL(t).value]
    /\ QGoto(t, "alloc_store", QL(t))

\* free_node->next.store(nullptr); return free_node;
AllocStore(t) ==
    /\ UNCHANGED besideQueue
    /\ QAt(t, "alloc_store")
    /\ q' = [q EXCEPT !.node[QL(t).free_node].next = QNull]
    /\ QGoto(t, "enq_tail", [QL(t) EXCEPT !.new_node = QL(t).free_node])

\* The addresses a new expression may return: one never used, or one that
\* has been deleted.
NewAddresses ==
    LET unused == {n \in 1 .. QueueNodes : q.node[n].state = "unused"}
    IN {n \in unused : \A m \in unused : n <= m}
          \cup {n \in 1 .. QueueNodes : q.node[n].state = "deleted"}

\* return new Node(value);
AllocNew(t) ==
    /\ UNCHANGED besideQueue
    /\ QAt(t, "alloc_new")
    /\ \E n \in NewAddresses :
          /\ q' = [q EXCEPT !.node[n] = [data |-> QL(t).value, next |-> QNull,
                                         state |-> "live"]]
          /\ QGoto(t, "enq_tail", [QL(t) EXCEPT !.new_node = n])

\* Node* tail = tail_.load();
EnqLoadTail(t) ==
    /\ UNCHANGED besideQueue
    /\ QAt(t, "enq_tail")
    /\ QGoto(t, "enq_next", [QL(t) EXCEPT !.tail = q.tail_])
    /\ UNCHANGED q

\* Node* next = tail->next.load();
EnqLoadNext(t) ==
    /\ UNCHANGED besideQueue
    /\ QAt(t, "enq_next")
    /\ QGoto(t, "enq_check", [QL(t) EXCEPT !.next = q.node[QL(t).tail].next])
    /\ UNCHANGED q

\* if (tail == tail_.load()) { if (next == nullptr) ... else ... }
EnqCheck(t) ==
    /\ UNCHANGED besideQueue
    /\ QAt(t, "enq_check")
    /\ QGoto(t, CASE QL(t).tail # q.tail_ -> "enq_tail"
                  [] QL(t).next = QNull -> "enq_cas"
                  [] OTHER -> "enq_help",
             QL(t))
    /\ UNCHANGED q

\* if (tail->next.compare_exchange_weak(next, new_node))
EnqCas(t) ==
    /\ UNCHANGED besideQueue
    /\ QAt(t, "enq_cas")
    /\ \E fails \in WeakCasFails(q.node[QL(t).tail].next = QL(t).next) :
          IF fails
          THEN /\ QGoto(t, "enq_tail", QL(t))
               /\ UNCHANGED q
          ELSE /\ q' = [q EXCEPT !.node[QL(t).tail].next = QL(t).new_node]
               /\ QGoto(t, "enq_swing", QL(t))

\* tail_.compare_exchange_strong(tail, new_node); return;
EnqSwing(t) ==
    /\ UNCHANGED besideQueue
    /\ QAt(t, "enq_swing")
    /\ q' = IF q.tail_ = QL(t).tail THEN [q EXCEPT !.tail_ = QL(t).new_node] ELSE q
    /\ qth' = [qth EXCEPT !.pc[t] = "idle", !.l[t] = QLocals0,
                          !.enq = Append(@, [thread |-> t, value |-> QL(t).value])]

\* tail_.compare_exchange_strong(tail, next), in enqueue and in dequeue.
HelpTail(t, at, to) ==
    /\ UNCHANGED besideQueue
    /\ QAt(t, at)
    /\ q' = IF q.tail_ = QL(t).tail THEN [q EXCEPT !.tail_ = QL(t).next] ELSE q
    /\ QGoto(t, to, QL(t))

EnqHelp(t) == HelpTail(t, "enq_help", "enq_tail")

\* dequeue(value): Node* head = head_.load();
DequeueCall(t) ==
    /\ UNCHANGED besideQueue
    /\ QAt(t, "idle") /\ qth.calls[t] > 0
    /\ qth' = [qth EXCEPT
                 !.calls[t] = @ - 1, !.pc[t] = "deq_tail",
                 !.l[t] = [QLocals0 EXCEPT !.head = q.head_,
                                           !.pending = Enqueued \ Dequeued]]
    /\ UNCHANGED q

\* The loop of dequeue starts again: Node* head = head_.load();
DeqLoadHead(t) ==
    /\ UNCHANGED besideQueue
    /\ QAt(t, "deq_head")
    /\ QGoto(t, "deq_tail", [QL(t) EXCEPT !.head = q.head_])
    /\ UNCHANGED q

\* Node* tail = tail_.load();
DeqLoadTail(t) ==
    /\ UNCHANGED besideQueue
    /\ QAt(t, "deq_tail")
    /\ QGoto(t, "deq_next", [QL(t) EXCEPT !.tail = q.tail_])
    /\ UNCHANGED q

\* Node* next = head->next.load();
DeqLoadNext(t) ==
    /\ UNCHANGED besideQueue
    /\ QAt(t, "deq_next")
    /\ QGoto(t, "deq_check", [QL(t) EXCEPT !.next = q.node[QL(t).head].next])
    /\ UNCHANGED q

\* if (head == head_.load()) { if (head == tail) { if (next == nullptr)
\* return false; ... } else { if (next == nullptr) continue; ... } }
DeqCheck(t) ==
    /\ UNCHANGED besideQueue
    /\ QAt(t, "deq_check")
    /\ UNCHANGED q
    /\ LET l == QL(t)
       IN CASE l.head # q.head_ -> QGoto(t, "deq_head", l)
            [] l.head = l.tail /\ l.next = QNull ->
                 qth' = [qth EXCEPT
                           !.pc[t] = "idle", !.l[t] = QLocals0,
                           !.false_nonempty = @ \/ ~(l.pending \subseteq Dequeued)]
            [] l.head = l.tail /\ l.next # QNull -> QGoto(t, "deq_help", l)
            [] l.head # l.tail /\ l.next = QNull -> QGoto(t, "deq_head", l)
            [] OTHER -> QGoto(t, "deq_read", l)

DeqHelp(t) == HelpTail(t, "deq_help", "deq_head")

\* value = next->data;
DeqRead(t) ==
    /\ UNCHANGED besideQueue
    /\ QAt(t, "deq_read")
    /\ QGoto(t, "deq_cas", [QL(t) EXCEPT !.value = q.node[QL(t).next].data])
    /\ UNCHANGED q

\* if (head_.compare_exchange_weak(head, next)) deallocate_node(head);
DeqCas(t) ==
    /\ UNCHANGED besideQueue
    /\ QAt(t, "deq_cas")
    /\ \E fails \in WeakCasFails(q.head_ = QL(t).head) :
          IF fails
          THEN /\ QGoto(t, "deq_head", QL(t))
               /\ UNCHANGED q
          ELSE /\ q' = [q EXCEPT !.head_ = QL(t).next]
               /\ qth' = [qth EXCEPT !.pc[t] = "free_count",
                                     !.deq = Append(@, QL(t).value)]

\* deallocate_node: size_t current_free = free_count_.load();
\* if (current_free < MAX_FREE_NODES)
FreeCount(t) ==
    /\ UNCHANGED besideQueue
    /\ QAt(t, "free_count")
    /\ QGoto(t, IF q.free_count_ >= 0 /\ q.free_count_ < MAX_FREE_NODES
                THEN "free_load" ELSE "free_delete",
             QL(t))
    /\ UNCHANGED q

\* Node* old_head = free_list_.load();
FreeLoad(t) ==
    /\ UNCHANGED besideQueue
    /\ QAt(t, "free_load")
    /\ QGoto(t, "free_link", [QL(t) EXCEPT !.old_head = q.free_list_])
    /\ UNCHANGED q

\* node->next.store(old_head);
FreeLink(t) ==
    /\ UNCHANGED besideQueue
    /\ QAt(t, "free_link")
    /\ q' = [q EXCEPT !.node[QL(t).head].next = QL(t).old_head]
    /\ QGoto(t, "free_cas", QL(t))

\* if (free_list_.compare_exchange_weak(old_head, node))
FreeCas(t) ==
    /\ UNCHANGED besideQueue
    /\ QAt(t, "free_cas")
    /\ \E fails \in WeakCasFails(q.free_list_ = QL(t).old_head) :
          IF fails
          THEN /\ QGoto(t, "free_delete", QL(t))
               /\ UNCHANGED q
          ELSE /\ q' = [q EXCEPT !.free_list_ = QL(t).head]
               /\ QGoto(t, "free_add", QL(t))

\* free_count_.fetch_add(1); return; and dequeue returns true.
FreeAdd(t) ==
    /\ UNCHANGED besideQueue
    /\ QAt(t, "free_add")
    /\ q' = [q EXCEPT !.free_count_ = @ + 1]
    /\ QGoto(t, "idle", QLocals0)

\* delete node; and dequeue returns true.
FreeDelete(t) ==
    /\ UNCHANGED besideQueue
    /\ QAt(t, "free_delete")
    /\ q' = [q EXCEPT !.node[QL(t).head].state = "deleted"]
    /\ QGoto(t, "idle", QLocals0)

\* The node the thread's next step reads or writes through a pointer it
\* loaded earlier.
Dereferenced(t) ==
    CASE qth.pc[t] \in {"alloc_next"} -> QL(t).free_node
      [] qth.pc[t] \in {"enq_next", "enq_cas"} -> QL(t).tail
      [] qth.pc[t] \in {"deq_next"} -> QL(t).head
      [] qth.pc[t] \in {"deq_read"} -> QL(t).next
      [] OTHER -> QNull

\* A step through a pointer to a deleted node is a use after free: the
\* access may find the memory as it was left, which the other actions
\* describe, or end the process.
UseAfterFree(t) ==
    /\ UNCHANGED besideQueue
    /\ ~qth.aborted
    /\ Dereferenced(t) # QNull /\ q.node[Dereferenced(t)].state = "deleted"
    /\ qth' = [qth EXCEPT !.aborted = TRUE]
    /\ UNCHANGED q

QueueSteps(t) ==
    \/ EnqueueCall(t) \/ AllocNext(t) \/ AllocCas(t) \/ AllocCount(t)
    \/ AllocData(t) \/ AllocStore(t) \/ AllocNew(t)
    \/ EnqLoadTail(t) \/ EnqLoadNext(t) \/ EnqCheck(t) \/ EnqCas(t)
    \/ EnqSwing(t) \/ EnqHelp(t)
    \/ DequeueCall(t) \/ DeqLoadHead(t) \/ DeqLoadTail(t) \/ DeqLoadNext(t)
    \/ DeqCheck(t) \/ DeqHelp(t) \/ DeqRead(t) \/ DeqCas(t)
    \/ FreeCount(t) \/ FreeLoad(t) \/ FreeLink(t) \/ FreeCas(t) \/ FreeAdd(t)
    \/ FreeDelete(t)
    \/ UseAfterFree(t)

\* Two threads share a new queue and make QueueCalls calls each, enqueue or
\* dequeue.
InitQueue ==
    /\ NoCache /\ mgr = Unbuilt /\ mth = Unbuilt /\ bf = Unbuilt /\ bth = Unbuilt
    /\ ConstructQueue(QueueCalls)

NextQueue == \E t \in QThreads : QueueSteps(t)

SpecQueue == InitQueue /\ [][NextQueue]_vars

\* ------------------------------------------------------------ Bloom filters

\* A filter is constructed for a number of expected elements and a false
\* positive rate, a pair <<elements, rate>> with the rate as its decimal.  A
\* 64-bit word of bit_array_ is the set of the positions of its set bits.  The
\* two hashes of a key are inputs: murmur_hash3_64 is a function of the key
\* and the seed, and the values drawn keep h1 + i * h2 below 2^64.

besideFilter == <<cacheVars, mgr, mth, q, qth>>

\* static_cast<size_t>(-elements * log(rate) / (log(2) * log(2)))
calculate_optimal_size(elements, false_positive_rate) ==
    CASE elements = 1 /\ false_positive_rate = "0.01" -> 9
      [] elements = 2 /\ false_positive_rate = "0.01" -> 19
      [] elements = 1 /\ false_positive_rate = "0.1" -> 4
      [] elements = 14 /\ false_positive_rate = "0.1" -> 67
      [] elements = 1 /\ false_positive_rate = "0.5" -> 1

\* static_cast<size_t>(double(size) / elements * log(2))
calculate_optimal_hash_count(elements, size) ==
    CASE elements = 1 /\ size = 9 -> 6
      [] elements = 2 /\ size = 19 -> 6
      [] elements = 1 /\ size = 4 -> 2
      [] elements = 14 /\ size = 67 -> 3
      [] elements = 1 /\ size = 1 -> 0

\* uint64_t hash = h1 + i * h2; size_t index = hash % size;
ProbeIndex(h1, h2, i, size) == (h1 + i * h2) % size

\* ThreadSafeBloomFilter(expected_elements, false_positive_rate)
NewBloomFilter(shape) ==
    LET size == calculate_optimal_size(shape[1], shape[2])
    IN [bit_array_size_ |-> size,
        hash_function_count_ |-> calculate_optimal_hash_count(shape[1], size),
        bit_array_ |-> [w \in 0 .. ((size + 63) \div WORD_BITS) - 1 |-> {}],
        added_elements_ |-> 0, concurrent_writers_ |-> 0]

\* A thread between calls; added are the keys whose add has returned, known
\* whether the key of a might_contain was one of them when it was called.
BloomIdle(calls) ==
    [pc |-> "idle", calls |-> calls, op |-> "none", key |-> "", h1 |-> 0,
     h2 |-> 0, i |-> 0, index |-> 0, old_value |-> {}, new_value |-> {},
     known |-> FALSE, result |-> FALSE, returned |-> FALSE, contended |-> FALSE]

ConstructBloomFilter(shapes, hashes, calls) ==
    /\ bf \in {NewBloomFilter(shape) : shape \in shapes}
    /\ bth \in {[hash |-> h, added |-> {}, th |-> [t \in Workers |-> BloomIdle(calls)]] :
                  h \in [BloomKeys -> hashes]}

BloomAt(t, label) == bth.th[t].pc = label

\* A thread calls add_thread_safe(key): concurrent_writers_.fetch_add(1), and
\* add computes the two hashes.
AddEnter(t) ==
    /\ UNCHANGED besideFilter
    /\ BloomAt(t, "idle") /\ bth.th[t].calls > 0
    /\ \E key \in BloomKeys :
          bth' = [bth EXCEPT !.th[t] =
                    [@ EXCEPT !.pc = "probe", !.calls = @ - 1, !.op = "add",
                              !.key = key, !.h1 = bth.hash[key][1],
                              !.h2 = bth.hash[key][2], !.i = 0,
                              !.known = FALSE, !.result = FALSE,
                              !.returned = FALSE, !.contended = FALSE]]
    /\ bf' = [bf EXCEPT !.concurrent_writers_ = @ + 1]

\* new_value = old_value | mask
NewWord(old_value, mask) == old_value \cup mask

\* A store that does not compare.
StoreAlways(word, old_value) == TRUE

\* compare_exchange_weak(old_value, new_value) can store when the word holds
\* old_value.
CasMayStore(word, old_value) == word = old_value

\* add: the next probe's index, and set_bit's load of its word; after the
\* last probe added_elements_.fetch_add(1).
AddProbe(t) ==
    /\ UNCHANGED besideFilter
    /\ BloomAt(t, "probe")
    /\ LET l == bth.th[t]
           index == ProbeIndex(l.h1, l.h2, l.i, bf.bit_array_size_)
           word == bf.bit_array_[index \div WORD_BITS]
       IN IF l.i < bf.hash_function_count_
          THEN /\ bth' = [bth EXCEPT !.th[t] =
                            [@ EXCEPT !.pc = "cas", !.index = index,
                                      !.old_value = word,
                                      !.new_value = NewWord(word, {index % WORD_BITS})]]
               /\ UNCHANGED bf
          ELSE /\ bth' = [bth EXCEPT !.th[t] =
                            [@ EXCEPT !.pc = "leave", !.i = 0, !.index = 0,
                                      !.old_value = {}, !.new_value = {}]]
               /\ bf' = [bf EXCEPT !.added_elements_ = @ + 1]

\* set_bit: compare_exchange_weak stores new_value, or fails, spuriously or
\* because the word has changed, and loads the word into old_value.
AddCas(t) ==
    /\ UNCHANGED besideFilter
    /\ BloomAt(t, "cas")
    /\ LET l == bth.th[t]
           word_index == l.index \div WORD_BITS
           word == bf.bit_array_[word_index]
       IN \/ /\ CasMayStore(word, l.old_value)
             /\ bf' = [bf EXCEPT !.bit_array_[word_index] = l.new_value]
             /\ bth' = [bth EXCEPT !.th[t] = [@ EXCEPT !.pc = "probe", !.i = @ + 1]]
          \/ /\ bth' = [bth EXCEPT !.th[t] =
                          [@ EXCEPT !.old_value = word,
                                    !.new_value = NewWord(word, {l.index % WORD_BITS}),
                                    !.contended = @ \/ word # l.old_value]]
             /\ UNCHANGED bf

\* add_thread_safe returns: concurrent_writers_.fetch_sub(1).
AddLeave(t) ==
    /\ UNCHANGED besideFilter
    /\ BloomAt(t, "leave")
    /\ bf' = [bf EXCEPT !.concurrent_writers_ = @ - 1]
    /\ bth' = [bth EXCEPT !.added = @ \cup {bth.th[t].key},
                          !.th[t] = [@ EXCEPT !.pc = "idle", !.returned = TRUE]]

\* A thread calls might_contain(key).
MightEnter(t) ==
    /\ UNCHANGED besideFilter
    /\ BloomAt(t, "idle") /\ bth.th[t].calls > 0
    /\ \E key \in BloomKeys :
          bth' = [bth EXCEPT !.th[t] =
                    [@ EXCEPT !.pc = "test", !.calls = @ - 1, !.op = "might_contain",
                              !.key = key, !.h1 = bth.hash[key][1],
                              !.h2 = bth.hash[key][2], !.i = 0,
                              !.known = key \in bth.added, !.result = FALSE,
                              !.returned = FALSE, !.contended = FALSE]]
    /\ UNCHANGED bf

\* (bit_array_[word_index].load() & mask) != 0
get_bit(index) == (index % WORD_BITS) \in bf.bit_array_[index \div WORD_BITS]

\* might_contain: false at the first probe whose bit is clear, true after the
\* last probe.
MightTest(t) ==
    /\ UNCHANGED besideFilter
    /\ BloomAt(t, "test")
    /\ LET l == bth.th[t]
           index == ProbeIndex(l.h1, l.h2, l.i, bf.bit_array_size_)
       IN bth' = IF l.i >= bf.hash_function_count_
                 THEN [bth EXCEPT !.th[t] =
                         [@ EXCEPT !.pc = "idle", !.i = 0, !.result = TRUE,
                                   !.returned = TRUE]]
                 ELSE IF get_bit(index)
                 THEN [bth EXCEPT !.th[t].i = @ + 1]
                 ELSE [bth EXCEPT !.th[t] =
                         [@ EXCEPT !.pc = "idle", !.i = 0, !.result = FALSE,
                                   !.returned = TRUE]]
    /\ UNCHANGED bf

\* Two threads share a filter of 67 bits and 3 probes, of 4 bits and 2
\* probes, or of 1 bit and no probe; each makes BloomCalls calls, add_thread_safe
\* or might_contain, of one of two keys.
BloomShapes == {<<14, "0.1">>, <<1, "0.1">>, <<1, "0.5">>}

BloomHashes == {<<0, 0>>, <<5, 3>>, <<62, 1>>}

InitBloom ==
    /\ NoCache /\ mgr = Unbuilt /\ mth = Unbuilt /\ q = Unbuilt /\ qth = Unbuilt
    /\ ConstructBloomFilter(BloomShapes, BloomHashes, BloomCalls)

NextBloom ==
    \E t \in Workers :
       \/ AddEnter(t) \/ AddProbe(t) \/ AddCas(t) \/ AddLeave(t)
       \/ MightEnter(t) \/ MightTest(t)

SpecBloom == InitBloom /\ [][NextBloom]_vars

\* CountingBloomFilter(expected_elements, false_positive_rate)
NewCountingBloomFilter(shape) ==
    LET size == calculate_optimal_size(shape[1], shape[2])
    IN [counter_array_size_ |-> size,
        hash_function_count_ |-> calculate_optimal_hash_count(shape[1], size),
        counter_array_ |-> [c \in 0 .. size - 1 |-> 0],
        added_elements_ |-> 0]

\* A counter that does not count beyond 1.
increment_to_one(old_value) == IF old_value < 1 THEN old_value + 1 ELSE old_value

\* new_value = (old_value < 255) ? old_value + 1 : 255
increment_counter(old_value) ==
    IF old_value < COUNTER_MAX THEN old_value + 1 ELSE COUNTER_MAX

\* CountingBloomFilter::add, from probe i on.
RECURSIVE Incremented(_, _, _, _, _)
Incremented(counters, h1, h2, i, filter) ==
    IF i >= filter.hash_function_count_ THEN counters
    ELSE LET index == ProbeIndex(h1, h2, i, filter.counter_array_size_)
         IN Incremented([counters EXCEPT ![index] = increment_counter(@)],
                        h1, h2, i + 1, filter)

\* CountingBloomFilter::remove, from probe i on: the counters it leaves and
\* what it returns; decrement_counter returns false at a counter of zero.
RECURSIVE Decremented(_, _, _, _, _)
Decremented(counters, h1, h2, i, filter) ==
    IF i >= filter.hash_function_count_ THEN [counters |-> counters, ok |-> TRUE]
    ELSE LET index == ProbeIndex(h1, h2, i, filter.counter_array_size_)
         IN IF counters[index] = 0 THEN [counters |-> counters, ok |-> FALSE]
            ELSE Decremented([counters EXCEPT ![index] = @ - 1], h1, h2, i + 1, filter)

\* CountingBloomFilter::might_contain
CountingMightContain(h1, h2) ==
    \A i \in 0 .. bf.hash_function_count_ - 1 :
       bf.counter_array_[ProbeIndex(h1, h2, i, bf.counter_array_size_)] # 0

\* One thread adds a key n times to a new filter, then asks might_contain and
\* removes the key, n times, and asks might_contain.  removes are the results
\* of the removes, contains those of might_contain, saturated whether a
\* counter has reached 255.
ConstructCountingFilter(shapes, hashes, counts) ==
    /\ bf \in {NewCountingBloomFilter(shape) : shape \in shapes}
    /\ bth \in [h : hashes, n : counts, adds : {0}, removes : {<< >>},
                contains : {<< >>}, saturated : {FALSE}]

CountingAdd ==
    /\ UNCHANGED besideFilter
    /\ bth.adds < bth.n
    /\ LET counters == Incremented(bf.counter_array_, bth.h[1], bth.h[2], 0, bf)
       IN /\ bf' = [bf EXCEPT !.counter_array_ = counters, !.added_elements_ = @ + 1]
          /\ bth' = [bth EXCEPT !.adds = @ + 1,
                        !.saturated = @ \/ \E c \in DOMAIN counters :
                                               counters[c] = COUNTER_MAX]

CountingAsk ==
    /\ UNCHANGED besideFilter
    /\ bth.adds = bth.n /\ Len(bth.contains) = Len(bth.removes)
    /\ bth' = [bth EXCEPT !.contains = Append(@, CountingMightContain(bth.h[1], bth.h[2]))]
    /\ UNCHANGED bf

CountingRemove ==
    /\ UNCHANGED besideFilter
    /\ bth.adds = bth.n /\ Len(bth.removes) < bth.n
    /\ Len(bth.contains) = Len(bth.removes) + 1
    /\ LET r == Decremented(bf.counter_array_, bth.h[1], bth.h[2], 0, bf)
       IN /\ bf' = [bf EXCEPT !.counter_array_ = r.counters,
                              !.added_elements_ = IF r.ok THEN @ - 1 ELSE @]
          /\ bth' = [bth EXCEPT !.removes = Append(@, r.ok)]

\* Filters of 9 and 19 counters with 6 probes, of 4 counters with 2 probes
\* and of 1 counter with no probe; a key whose probes fall on one counter, on
\* three and on six at the least; 1 to MaxAdds adds.
CountingShapes == {<<1, "0.01">>, <<2, "0.01">>, <<1, "0.1">>, <<1, "0.5">>}

InitCounting ==
    /\ NoCache /\ mgr = Unbuilt /\ mth = Unbuilt /\ q = Unbuilt /\ qth = Unbuilt
    /\ ConstructCountingFilter(CountingShapes, BloomHashes, 1 .. MaxAdds)

NextCounting == CountingAdd \/ CountingAsk \/ CountingRemove

SpecCounting == InitCounting /\ [][NextCounting]_vars

\* One thread makes calls add and remove calls, of either key, on a new filter;
\* last is the last call: its key, what it returned, and the counters, the
\* element count and the answers of might_contain it found.
ConstructFilterWithKeys(shapes, hashes, calls) ==
    /\ bf \in {NewCountingBloomFilter(shape) : shape \in shapes}
    /\ bth \in [hash : [BloomKeys -> hashes], calls : {calls},
                last : {[op |-> "none"]}]

\* The call that is being made, as last records it.
CallOf(op, key, ok) ==
    [op |-> op, key |-> key, ok |-> ok,
     counters |-> bf.counter_array_, elements |-> bf.added_elements_,
     contained |-> {k \in BloomKeys :
                      CountingMightContain(bth.hash[k][1], bth.hash[k][2])}]

\* add(key)
KeyAdd(key) ==
    /\ UNCHANGED besideFilter
    /\ bth.calls > 0
    /\ bf' = [bf EXCEPT
                !.counter_array_ =
                    Incremented(@, bth.hash[key][1], bth.hash[key][2], 0, bf),
                !.added_elements_ = @ + 1]
    /\ bth' = [bth EXCEPT !.calls = @ - 1, !.last = CallOf("add", key, TRUE)]

\* remove(key)
KeyRemove(key) ==
    /\ UNCHANGED besideFilter
    /\ bth.calls > 0
    /\ LET r == Decremented(bf.counter_array_, bth.hash[key][1], bth.hash[key][2], 0, bf)
       IN /\ bf' = [bf EXCEPT !.counter_array_ = r.counters,
                              !.added_elements_ = IF r.ok THEN @ - 1 ELSE @]
          /\ bth' = [bth EXCEPT !.calls = @ - 1, !.last = CallOf("remove", key, r.ok)]

\* Filters of 4 counters with 2 probes and of 19 counters with 6 probes.
RemoveShapes == {<<1, "0.1">>, <<2, "0.01">>}

InitRemove ==
    /\ NoCache /\ mgr = Unbuilt /\ mth = Unbuilt /\ q = Unbuilt /\ qth = Unbuilt
    /\ ConstructFilterWithKeys(RemoveShapes, BloomHashes, RemoveCalls)

NextRemove == \E key \in BloomKeys : KeyAdd(key) \/ KeyRemove(key)

SpecRemove == InitRemove /\ [][NextRemove]_vars

\* ------------------------------------------------------------------ claims

\* The calls of kind op that have returned and whose result is still held.
Returned(op) == {t \in Threads : res[t].op = op}

RECURSIVE SumOver(_, _)
SumOver(f, S) ==
    IF S = {} THEN 0
    ELSE LET x == CHOOSE y \in S : TRUE IN f[x] + SumOver(f, S \ {x})

\* The BucketNodes on the list from head h.
RECURSIVE ListFrom(_)
ListFrom(h) == IF h = NoBucket THEN {} ELSE {h} \cup ListFrom(bnodes[h].next)

\* The BucketNodes with key k that a lookup of k can walk over.
KeyNodes(k) == {m \in ListFrom(buckets[hash(k)]) : bnodes[m].key = k}

Keys == {AAPL, ORCL, NOPE}

\* The slots a call in flight has claimed for itself.
Claimed(t) ==
    CASE loc[t].op = "insert" /\ pc[t] \notin {"ins_load_total", "ins_claim"} ->
             {loc[t].node}
      [] loc[t].op = "batch" /\ pc[t] \notin {"bat_load_total", "bat_claim"} ->
             loc[t].start_index .. (loc[t].start_index + loc[t].batch_size - 1)
      [] OTHER -> {}

\* C2: whatever the interleaving, a record that get_highest_priority returns
\* for key k was inserted under k, lies in a written slot that has not been
\* deleted, and was not expired when its expiry was tested.
C2_ReturnedRecordValid ==
    \A t \in Returned("get") :
        res[t].node # Null =>
            /\ res[t].node \in DOMAIN writes
            /\ slotKey[res[t].node] = res[t].key
            /\ ~res[t].freed
            /\ ~res[t].expired

\* C3: no record is returned by get_highest_priority more than once, also
\* when pushes and pops of one bucket interleave.
C3_ReturnedOnce == \A s \in DOMAIN retCount : retCount[s] <= 1

\* C4: at most one BucketNode per key is reachable from the table, and the
\* callers of get_or_create for one key all get the same BucketNode.
C4_OneBucketPerKey ==
    /\ \A k \in Keys : Cardinality(KeyNodes(k)) <= 1
    /\ \A t, u \in Returned("insert") :
          (res[t].key = res[u].key /\ res[t].mid # NoBucket /\ res[u].mid # NoBucket)
              => res[t].mid = res[u].mid

\* The main thread has drained the key: its last retrieval returned none.
Drained == phase = "drain" /\ res[T0].op = "get" /\ ~res[T0].ok /\ pc[T0] = "idle"

\* C5: after the threads that inserted under one key have been joined, the
\* drain of that key returns as many records as insert calls returned true:
\* every record of a successful insert exactly once.
C5_DrainReturnsInserted ==
    (Drained /\ \A t \in Workers : res[t].op = "insert" /\ batTrue = 0) =>
        /\ SumOver(retCount, DOMAIN retCount) = insTrue
        /\ \A s \in okSlots : s \in DOMAIN retCount /\ retCount[s] = 1

\* C7: every successful claim of the arena yields slots no other claim
\* yields: no slot is written twice, and the slots of two calls in flight,
\* insert or insert_batch, do not overlap.
C7_DistinctSlots ==
    /\ \A s \in DOMAIN writes : writes[s] = 1
    /\ \A t, u \in Threads : t # u => Claimed(t) \cap Claimed(u) = {}
    /\ DOMAIN writes \subseteq 0 .. (pool_index - 1)

\* An insert and an insert_batch have written their slots while both ran.
C7_Witness ==
    /\ phase = "run"
    /\ \E t, u \in Workers :
          /\ loc[t].op = "insert" /\ pc[t] = "goc_find"
          /\ loc[u].op = "batch" /\ pc[u] = "bat_item" /\ loc[u].i = loc[u].batch_size
          /\ loc[t].node > loc[u].start_index

\* Every heap has floor(max_nodes / 10) cells and a size within them; an
\* insert refused by the bucket read a size equal to the capacity, an insert
\* that passed push read less.
HeapWithinCapacity ==
    /\ \A m \in 1 .. Len(bnodes) :
          Len(bnodes[m].heap) = Capacity /\ bnodes[m].size \in 0 .. Capacity
    /\ \A t \in Returned("insert") :
          /\ res[t].why = "bucket" => res[t].size_read = Capacity
          /\ res[t].why = "ok" => res[t].size_read < Capacity
    /\ \A t \in Threads :
          pc[t] \in {"push_cas", "push_store"} => loc[t].current_size < Capacity

\* A push that refuses leaves the cells and the size of every heap as they were.
RefusalStep ==
    \A t \in Threads :
        (pc[t] = "push_load_size" /\ pc'[t] = "idle" /\ res'[t].why = "bucket")
            => (bnodes' = bnodes /\ buckets' = buckets)

\* C9: a heap has floor(max_nodes / 10) cells and never holds more; push
\* refuses exactly when the size it read equals the capacity, and a push that
\* refuses changes neither the cells nor the size.
C9_HeapCapacity == []HeapWithinCapacity /\ [][RefusalStep]_vars

\* An insert was refused by a full heap while another had filled it.
C9_Witness ==
    \E t \in Returned("insert") :
        /\ res[t].why = "bucket"
        /\ \E m \in 1 .. Len(bnodes) : bnodes[m].size = Capacity /\ Capacity > 0

\* C6: the insert calls that returned true are never more than max_nodes.
C6_InsertsBounded == insTrue <= max_nodes /\ Cardinality(okSlots) = insTrue

\* max_nodes inserts returned true and one more was refused by the arena.
C6_Witness ==
    /\ insTrue = max_nodes
    /\ \E t \in Workers : res[t].op = "insert" /\ res[t].why = "arena"

\* The priority of the record that call result r names.
PriorityOf(r) == node_pool[IF r.op = "get" THEN r.node ELSE r.index].priority

\* Results i and j of the main thread are retrievals with inserts only before.
GetsInARow(i, j) ==
    /\ i < j
    /\ \A h \in i .. j : hist[h].op = "get" /\ hist[h].key = hist[i].key

\* C1: a thread that runs alone gets from get_highest_priority a live record
\* whose priority is the greatest among the live records of the bucket, and
\* none when no live record is left; successive retrievals come in
\* non-increasing priority.
C1_MaxPriorityFirst ==
    /\ \A t \in Returned("get") :
          IF res[t].ok
          THEN /\ ~res[t].expired /\ ~res[t].freed
               /\ slotKey[res[t].node] = res[t].key
               /\ PriorityOf(res[t]) = res[t].best
          ELSE res[t].best = -1
    /\ \A i, j \in DOMAIN hist :
          (GetsInARow(i, j) /\ hist[i].ok /\ hist[j].ok)
              => PriorityOf(hist[i]) >= PriorityOf(hist[j])

\* Priorities 1, 3, 2 were inserted, and retrieved as 3, 2, 1, then none.
C1_Witness ==
    \E i \in DOMAIN hist :
        /\ i + 6 \in DOMAIN hist
        /\ \A h \in i .. (i + 2) : hist[h].op = "insert" /\ hist[h].ok
        /\ <<PriorityOf(hist[i]), PriorityOf(hist[i + 1]), PriorityOf(hist[i + 2])>>
               = <<1, 3, 2>>
        /\ \A h \in (i + 3) .. (i + 5) : hist[h].op = "get" /\ hist[h].ok
        /\ <<PriorityOf(hist[i + 3]), PriorityOf(hist[i + 4]), PriorityOf(hist[i + 5])>>
               = <<3, 2, 1>>
        /\ hist[i + 6].op = "get" /\ ~hist[i + 6].ok

\* C8: of four successive inserts into a cache built with max_nodes = 3 the
\* first three return true and the fourth returns false.
C8_ThreeOfFour ==
    (max_nodes = 3 /\ Len(hist) >= 4 /\ \A h \in 1 .. 4 : hist[h].op = "insert")
        => <<hist[1].ok, hist[2].ok, hist[3].ok, hist[4].ok>> = <<TRUE, TRUE, TRUE, FALSE>>

\* The records inserted under key k so far.
InsertedUnder(k) == {s \in DOMAIN slotKey : slotKey[s] = k}

\* Bucket m holds no record.
EmptyBucket(m) ==
    bnodes[m].size = 0 /\ \A i \in 1 .. Len(HeapOf(m)) : HeapOf(m)[i] = Null

\* C10: get_highest_priority returns none for a key never inserted, for an
\* empty bucket and for a bucket of expired records only, which it removes:
\* after a retrieval that returned none the bucket is empty, and a retrieval
\* that returned a record returned one whose lifetime had not elapsed.
C10_NoneCases ==
    \A t \in Returned("get") :
        /\ InsertedUnder(res[t].key) = {} => ~res[t].ok
        /\ (~res[t].ok /\ res[t].mid # NoBucket) => EmptyBucket(res[t].mid)
        /\ res[t].ok => ~res[t].expired

\* The thread got none for a key never inserted, for a bucket of expired
\* records only, and for the bucket it had emptied so.
C10_Witness ==
    \E i, j \in DOMAIN hist :
        /\ hist[i].op = "get" /\ ~hist[i].ok /\ hist[i].mid = NoBucket
        /\ i < j /\ j + 1 \in DOMAIN hist
        /\ hist[j].op = "get" /\ ~hist[j].ok /\ hist[j].lost >= 2
        /\ hist[j + 1].op = "get" /\ ~hist[j + 1].ok /\ hist[j + 1].lost = 0
        /\ hist[j + 1].mid # NoBucket
        /\ res[T0] = [hist[j + 1] EXCEPT !.at = 0]
        /\ EmptyBucket(res[T0].mid)


\* C11: lazy reclamation.  A retrieval discards every expired record it pops
\* and goes on popping, so a call that meets B expired records ahead of a live
\* one returns the live one itself (within the first call, hence within B
\* calls), and a call on a known key reports none only when no record of the
\* bucket was live at its return.
C11_LazyReclamation ==
    \A i \in DOMAIN hist :
        (hist[i].op = "get" /\ hist[i].mid # NoBucket)
            => /\ (~hist[i].ok) => hist[i].best = -1
               /\ hist[i].ok => ~hist[i].expired

\* One call discarded an expired record and still returned a live one.
C11_Witness ==
    \E i \in DOMAIN hist :
        hist[i].op = "get" /\ hist[i].ok /\ hist[i].lost >= 1 /\ ~hist[i].expired


\* Results i and i + 1 of the main thread are an insert that returned true and
\* a retrieval under the same key that found no live record of a priority
\* above the inserted one.
InsertThenGet(i) ==
    /\ i \in DOMAIN hist /\ (i + 1) \in DOMAIN hist
    /\ hist[i].op = "insert" /\ hist[i].ok
    /\ hist[i + 1].op = "get" /\ hist[i + 1].key = hist[i].key
    /\ hist[i + 1].best <= hist[i].priority

\* The lifetime ttl seconds, in clock units.
LifetimeUs(ttl) == (ttl.num * 1000000) \div ttl.den

\* The record of insert result r had not outlived its lifetime at clock t.
LiveAt(r, t) == t - node_pool[r.index].timestamp_ns <= LifetimeUs(r.expiry)

\* C12 as stated: an insert that returned true and is followed by a retrieval
\* of the same key, with no live record of a strictly greater priority in the
\* bucket, is answered with a record of exactly the inserted value and
\* priority.
C12_RoundTrip ==
    \A i \in DOMAIN hist :
        InsertThenGet(i)
            => /\ hist[i + 1].ok
               /\ node_pool[hist[i + 1].node].value = hist[i].value
               /\ node_pool[hist[i + 1].node].priority = hist[i].priority

\* C12, amended: if moreover the inserted record is still live when the
\* retrieval tests it, the retrieval returns a record of exactly the inserted
\* priority, and returns the inserted record itself (slot and value) when no
\* other live record of the bucket has that priority.
C12_RoundTripLive ==
    \A i \in DOMAIN hist :
        (InsertThenGet(i) /\ LiveAt(hist[i], hist[i + 1].at))
            => /\ hist[i + 1].ok
               /\ node_pool[hist[i + 1].node].priority = hist[i].priority
               /\ hist[i + 1].ties = 0
                     => /\ hist[i + 1].node = hist[i].index
                        /\ node_pool[hist[i + 1].node].value = hist[i].value

\* The third insert put value 101 with priority 2 above two records of value
\* 100 and priority 1, and the next retrieval returned it.
C12_Witness ==
    /\ InsertThenGet(3)
    /\ hist[1].value = 100 /\ hist[1].priority = 1 /\ hist[1].ok
    /\ hist[2].value = 100 /\ hist[2].priority = 1 /\ hist[2].ok
    /\ hist[3].value = 101 /\ hist[3].priority = 2
    /\ hist[4].ok /\ hist[4].node = hist[3].index /\ hist[4].ties = 0
    /\ node_pool[hist[4].node].value = 101


\* The first call of the main thread was an insert_batch that returned true,
\* with all its items under key k and no more of them than a bucket holds.
BatchUnder(k) ==
    /\ hist # << >>
    /\ hist[1].op = "batch" /\ hist[1].ok
    /\ hist[1].lost <= Capacity
    /\ \A x \in DOMAIN hist[1].items : hist[1].items[x].key = k

\* Result j is one of the retrievals under k that follow the batch at once.
GetAfterBatch(j, k) ==
    /\ j \in DOMAIN hist /\ j >= 2
    /\ \A h \in 2 .. j : hist[h].op = "get" /\ hist[h].key = k

\* C13: in a new cache, after insert_batch returned true for items that are
\* all under key k, live and no more than a bucket holds, the next |items|
\* retrievals of k each return a record, each a different slot of the batch
\* holding the value and priority of its item, and the retrieval after them
\* returns none.
C13_BatchRoundTrip ==
    \A k \in {AAPL, ORCL} :
        BatchUnder(k) =>
            LET n == hist[1].lost
                first == hist[1].index
            IN \A j \in DOMAIN hist :
                  GetAfterBatch(j, k) =>
                     /\ j <= n + 1 =>
                           /\ hist[j].ok
                           /\ hist[j].node \in first .. (first + n - 1)
                           /\ node_pool[hist[j].node].value
                                  = hist[1].items[hist[j].node - first + 1].value
                           /\ node_pool[hist[j].node].priority
                                  = hist[1].items[hist[j].node - first + 1].priority
                           /\ \A h \in 2 .. (j - 1) : hist[h].node # hist[j].node
                     /\ j = n + 2 => ~hist[j].ok

\* A batch of more than BatchItems items with both values was retrieved whole
\* and the retrieval after the last record returned none.
C13_Witness ==
    /\ BatchUnder(AAPL)
    /\ hist[1].lost > BatchItems
    /\ {hist[1].items[x].value : x \in DOMAIN hist[1].items} = {100, 101}
    /\ {hist[1].items[x].priority : x \in DOMAIN hist[1].items} = {1, 2}
    /\ Len(hist) = hist[1].lost + 2
    /\ GetAfterBatch(Len(hist), AAPL)
    /\ \A j \in 2 .. (Len(hist) - 1) : hist[j].ok
    /\ ~hist[Len(hist)].ok


\* The slots in the cells of the heaps.
InHeaps == {HeapOf(m)[i] : m \in DOMAIN bnodes, i \in 1 .. Capacity} \ {Null}

\* C14: insert_batch returns true once both capacity tests have passed,
\* whatever push answered: of a batch under one key into a new cache the items
\* beyond the capacity of the bucket are dropped; a dropped item is in no heap
\* and is never returned, its slot stays claimed below pool_index, and
\* total_nodes has still grown by the full length of the batch.
C14_BatchDropsSilently ==
    /\ total_nodes = insTrue + batTrue
    /\ \A i \in DOMAIN hist :
          hist[i].op = "batch" =>
             /\ hist[i].ok = (hist[i].why \notin {"total", "arena"})
             /\ hist[i].ok =>
                   /\ batTrue >= hist[i].lost
                   /\ pool_index >= hist[i].index + hist[i].lost
                   /\ \A n \in hist[i].dropped :
                         /\ n \in hist[i].index .. (hist[i].index + hist[i].lost - 1)
                         /\ n \in DOMAIN writes
                         /\ retCount[n] = 0
                         /\ n \notin InHeaps
             /\ (i = 1 /\ \E k \in {AAPL, ORCL} :
                     \A x \in DOMAIN hist[1].items : hist[1].items[x].key = k)
                   => Cardinality(hist[1].dropped)
                         = (IF hist[1].lost > Capacity
                            THEN hist[1].lost - Capacity ELSE 0)

\* A batch overflowed its bucket and returned true with total_nodes raised by
\* its full length; the retrievals after it returned the one stored record
\* and then none.
C14_Witness ==
    /\ Len(hist) >= 3
    /\ hist[1].op = "batch" /\ hist[1].ok /\ hist[1].dropped # {}
    /\ hist[1].lost = Cardinality(hist[1].dropped) + 1
    /\ total_nodes >= hist[1].lost
    /\ hist[2].op = "get" /\ hist[2].ok /\ hist[2].node \notin hist[1].dropped
    /\ hist[3].op = "get" /\ ~hist[3].ok


\* C15: get_highest_priority_batch(keys) returns one entry for each key, the
\* i-th being what get_highest_priority(keys[i]) returns when called in index
\* order: the answer for that key (none exactly when the key has no live
\* record left, else a live record of the key of the greatest live priority),
\* a record taken by an earlier entry never returned again, and the entries of
\* a repeated key in non-increasing priority.
C15_BatchIsSuccessiveGets ==
    \A i \in DOMAIN hist :
        hist[i].op = "getbatch" =>
           LET r == hist[i].results
           IN /\ Len(r) = Len(hist[i].keys)
              /\ \A j \in DOMAIN r :
                    /\ r[j].op = "get" /\ r[j].key = hist[i].keys[j]
                    /\ IF r[j].ok
                       THEN /\ ~r[j].expired /\ ~r[j].freed
                            /\ slotKey[r[j].node] = r[j].key
                            /\ PriorityOf(r[j]) = r[j].best
                       ELSE r[j].best = -1
                    /\ \A h \in 1 .. (j - 1) :
                          (r[h].ok /\ r[j].ok) => r[h].node # r[j].node
                    /\ \A h \in 1 .. (j - 1) :
                          (r[h].key = r[j].key /\ r[j].ok)
                              => (r[h].ok /\ PriorityOf(r[h]) >= PriorityOf(r[j]))

\* get_highest_priority_batch(<<ORCL, AAPL, AAPL>>) after two records of
\* priorities 1 and 2 went under AAPL: none, then the two records in order.
C15_Witness ==
    \E i \in DOMAIN hist :
        /\ hist[i].op = "getbatch" /\ hist[i].keys = <<ORCL, AAPL, AAPL>>
        /\ Len(hist[i].results) = 3
        /\ ~hist[i].results[1].ok
        /\ hist[i].results[2].ok /\ hist[i].results[3].ok
        /\ hist[i].results[2].node # hist[i].results[3].node
        /\ PriorityOf(hist[i].results[2]) = 2
        /\ PriorityOf(hist[i].results[3]) = 1


\* Thread t takes the step of get_highest_priority that looks its key up, and
\* the key has no bucket.
LookupOfNewKey(t) ==
    /\ pc[t] = "get_lookup" /\ pc'[t] # "get_lookup"
    /\ KeyNodes(loc[t].key) = {}

\* The call returns none with that step: to its caller, or as the next entry
\* of the results of get_highest_priority_batch.
ReturnsNone(t) ==
    IF loc[t].op = "get"
    THEN pc'[t] = "idle" /\ res'[t].op = "get" /\ ~res'[t].ok
                        /\ res'[t].node = Null
    ELSE /\ pc'[t] = "gb_item"
         /\ Len(loc'[t].results) = Len(loc[t].results) + 1
         /\ ~loc'[t].results[Len(loc'[t].results)].ok
         /\ loc'[t].results[Len(loc'[t].results)].node = Null

\* C16: a retrieval of a key that has no bucket returns none and creates
\* nothing: the key index, every bucket, the pool index, total_nodes and the
\* arena are what they were.
C16_RetrievalCreatesNothing ==
    [][\A t \in Threads :
          LookupOfNewKey(t)
              => /\ ReturnsNone(t)
                 /\ \E k \in {loc[t].key} : KeyNodes(k)' = {}
                 /\ UNCHANGED <<buckets, bnodes, pool_index, total_nodes,
                                node_pool, max_nodes>>]_vars

\* With a record under AAPL, get_highest_priority_batch(<<AAPL, ORCL>>) and
\* get_highest_priority(ORCL) both answered none for ORCL, which has no bucket.
C16_Witness ==
    /\ KeyNodes(ORCL) = {} /\ KeyNodes(AAPL) # {}
    /\ \E i, j \in DOMAIN hist :
          /\ hist[i].op = "getbatch" /\ hist[i].keys = <<AAPL, ORCL>>
          /\ hist[i].results[1].ok
          /\ hist[i].results[2].why = "unknown" /\ ~hist[i].results[2].ok
          /\ hist[j].op = "get" /\ hist[j].key = ORCL
          /\ hist[j].why = "unknown" /\ ~hist[j].ok
    /\ pool_index = BatchItems /\ total_nodes = BatchItems


\* C17: an insert that returned false left total_nodes, the key index (the
\* buckets that can be reached) and every bucket as they were when it was
\* called.
C17_FailedInsertLeavesNoTrace ==
    \A i \in DOMAIN hist :
        (hist[i].op = "insert" /\ ~hist[i].ok) => hist[i].same


\* C18: no operation reads through an absent (null) record: neither the
\* expiry test of get_highest_priority_node on what pop returned, nor the
\* priority comparisons of sift_up and sift_down on a heap cell.
C18_NoNullDereference == "null_deref" \notin faults


\* C19: under a fair scheduler every call returns (or the process has died of
\* a fault): no thread stays inside insert or get_highest_priority for ever.
C19_EveryCallReturns ==
    \A t \in Threads : (pc[t] # "idle") ~> (pc[t] = "idle" \/ crashed)


\* The age of the record of slot n at clock reading t.
Age(n, t) == t - node_pool[n].timestamp_ns

\* C20: the expiry test is strict.  A record is returned at any age up to and
\* including its lifetime, a record that was discarded as expired is older
\* than its lifetime, and a retrieval reports none only when the bucket holds
\* no record of an age within its lifetime.
C20_StrictExpiry ==
    /\ \A n \in DOMAIN node_pool :
          node_pool[n].freed => Age(n, now) > LifetimeUs(TtlMs)
    /\ \A i \in DOMAIN hist :
          (hist[i].op = "get" /\ hist[i].mid # NoBucket) =>
             IF hist[i].ok
             THEN Age(hist[i].node, hist[i].at) <= LifetimeUs(TtlMs)
             ELSE /\ hist[i].best = -1
                  /\ \A n \in DOMAIN node_pool :
                        (slotKey[n] = hist[i].key /\ retCount[n] = 0)
                            => Age(n, hist[i].at) > LifetimeUs(TtlMs)

\* A record was returned at the age of exactly its lifetime.
C20_Witness ==
    \E i \in DOMAIN hist :
        /\ hist[i].op = "get" /\ hist[i].ok
        /\ Age(hist[i].node, hist[i].at) = LifetimeUs(TtlMs)
        /\ Age(hist[i].node, hist[i].at) = node_pool[hist[i].node].expiry_time_ns
        /\ ~node_pool[hist[i].node].freed


\* C21: the pool index never exceeds max_nodes, whatever calls of insert and
\* insert_batch, returning true or false, have run.
C21_PoolIndexBounded == pool_index <= max_nodes

\* C22: exhaustion of the arena is permanent.  An insert, or an insert_batch
\* of one item or more, that is called when the pool index has reached
\* max_nodes returns false, whatever has been retrieved or has expired since;
\* and the pool index, once it has reached max_nodes, stays there or above.
C22_ExhaustionIsPermanent ==
    /\ \A t \in Returned("insert") : res[t].exhausted => ~res[t].ok
    /\ \A t \in Returned("batch") :
          (res[t].exhausted /\ res[t].lost >= 1) => ~res[t].ok
    /\ \A t \in Threads :
          (loc[t].op \in {"insert", "batch"} /\ loc[t].exhausted)
             => pool_index >= max_nodes

\* With every stored record retrieved or expired and total_nodes still below
\* max_nodes, an insert and an insert_batch called after the pool index had
\* reached max_nodes were refused by the index tests.
C22_Witness ==
    /\ phase = "drain" /\ pc[T0] = "idle"
    /\ res[T0].op = "batch" /\ res[T0].exhausted /\ res[T0].lost >= 1
    /\ ~res[T0].ok /\ res[T0].why = "arena"
    /\ res[T1].op = "insert" /\ res[T1].exhausted
    /\ ~res[T1].ok /\ res[T1].why = "arena"
    /\ total_nodes < max_nodes
    /\ InHeaps = {}

\* C23: expired records are discarded, not freed.  No slot of the arena is
\* released to the allocator while the cache lives: a retrieval that pops an
\* expired record leaves its slot with the arena, which releases every slot
\* once, when the cache is torn down.
C23_SlotsFreedAtTeardownOnly == \A s \in DOMAIN node_pool : ~node_pool[s].freed

\* C24: ties are broken by insertion order.  Of two records of one bucket
\* with equal priority that one thread, running alone, retrieves by calls with
\* no insert between them, the one inserted earlier (the lower slot) is
\* returned first.
C24_OlderFirstAmongEquals ==
    \A i, j \in DOMAIN hist :
        (/\ GetsInARow(i, j) /\ hist[i].ok /\ hist[j].ok
         /\ PriorityOf(hist[i]) = PriorityOf(hist[j]))
            => hist[i].node < hist[j].node

\* The results of insert_batch calls that returned false.
FailedBatches ==
    {r \in {res[t] : t \in Threads} \cup {hist[i] : i \in DOMAIN hist} :
        r.op = "batch" /\ ~r.ok}

\* Thread t takes a step of insert_batch that comes before the loop over the
\* items: the call, the test of total_nodes, the claim of the range.
BeforeItems(t) ==
    \/ pc[t] = "idle" /\ pc'[t] = "bat_load_total"
    \/ pc[t] \in {"bat_load_total", "bat_claim"} /\ pc'[t] # pc[t]

\* C29: an insert_batch that returns false has written no record, put
\* nothing into a bucket and left total_nodes as it was.  It returns false
\* from one of its two tests only: refused by the test of total_nodes (with
\* total_nodes + |items| > max_nodes) it leaves the pool index unchanged;
\* refused by the range test (with start_index + |items| > max_nodes) it leaves
\* the pool index advanced by |items|, and no call ever writes a slot of the
\* range it claimed.
C29_FailedBatch ==
    /\ [](\A r \in FailedBatches :
            /\ r.why \in {"total", "arena"}
            /\ r.items = << >> /\ r.dropped = {}
            /\ r.why = "total" => total_nodes + r.lost > max_nodes
            /\ r.why = "arena" =>
                  /\ r.index + r.lost > max_nodes
                  /\ pool_index >= r.index + r.lost
                  /\ \A s \in r.index .. (r.index + r.lost - 1) :
                        s \notin DOMAIN writes)
    /\ [][\A t \in Threads :
            BeforeItems(t) =>
               /\ UNCHANGED <<node_pool, writes, slotKey, buckets, bnodes,
                              total_nodes>>
               /\ IF pc[t] = "bat_claim"
                  THEN pool_index' = pool_index + loc[t].batch_size
                  ELSE pool_index' = pool_index
               /\ pc'[t] = "idle" =>
                     /\ ~res'[t].ok
                     /\ res'[t].why = (IF pc[t] = "bat_claim" THEN "arena"
                                       ELSE "total")
                     /\ res'[t].lost = loc[t].batch_size
                     /\ pc[t] = "bat_claim" => res'[t].index = pool_index]_vars

\* The main thread's batch of 4 was refused by the range test at pool index 7:
\* the pool index went to 11, the slots 7, 8 and 9 were never written, and the
\* calls of the workers and of the main thread after them were refused.
C29_Witness ==
    /\ \E i \in DOMAIN hist :
          /\ hist[i].op = "batch" /\ ~hist[i].ok /\ hist[i].why = "arena"
          /\ hist[i].index < max_nodes
          /\ \A s \in hist[i].index .. (max_nodes - 1) : s \notin DOMAIN writes
    /\ phase = "drain" /\ budget["drain"] = 0 /\ pc[T0] = "idle"
    /\ res[T0].op = "batch" /\ ~res[T0].ok /\ res[T0].why = "arena"
    /\ res[T1].op = "insert" /\ ~res[T1].ok
    /\ res[T2].op = "batch" /\ ~res[T2].ok /\ res[T2].index >= max_nodes

\* No thread is inside a call.
Quiescent == \A t \in Threads : pc[t] = "idle"

\* Thread t takes a step of get_highest_priority.
RetrievalStep(t) ==
    /\ <<pc[t], loc[t]>> # <<pc'[t], loc'[t]>>
    /\ loc[t].op = "get" \/ loc'[t].op = "get"

\* C30: total_nodes counts inserts.  It never decreases, no step of a
\* retrieval changes it (whether the retrieval returns a record or discards
\* expired ones), and whenever no call is running it is the number of insert
\* calls that returned true plus the lengths of the insert_batch calls that
\* returned true.
C30_TotalNodesCountsInserts ==
    /\ [](Quiescent => total_nodes = insTrue + batTrue)
    /\ [][/\ total_nodes' >= total_nodes
          /\ \A t \in Threads : RetrievalStep(t) => total_nodes' = total_nodes]_vars

\* After inserts and batches that returned true and a retrieval that discarded
\* every stored record as expired, the calls have all returned and total_nodes
\* still counts the inserted records, none of which is left in a bucket.
C30_Witness ==
    /\ Quiescent /\ phase = "drain" /\ budget["drain"] = 0
    /\ insTrue >= 1 /\ batTrue >= 5
    /\ total_nodes = insTrue + batTrue
    /\ InHeaps = {}
    /\ \E s \in DOMAIN node_pool : node_pool[s].freed

\* The six members of CacheConfig that have to be positive.
ValidatedMembers ==
    {"max_nodes", "cleanup_interval_ms", "max_memory_mb", "num_worker_threads",
     "batch_size", "hash_table_buckets"}

AllPositive(config) == \A member \in ValidatedMembers : config[member] > 0

\* C25: constructing a MemoryManager with one of the six validated
\* configuration members not positive fails with an invalid-argument error,
\* before a node is pre-allocated and before the worker is started; with all
\* six positive the validation passes.
C25_InvalidConfigRejected ==
    /\ mth.pc # "ctor" => (mth.pc = "threw" <=> ~AllPositive(mgr.config_))
    /\ mth.pc = "threw" => mth.thrown = "invalid_argument"
    /\ ~AllPositive(mgr.config_) =>
          /\ mgr.node_pool_ = << >> /\ mgr.total_memory_usage_ = 0
          /\ mgr.cleanup_thread_ = "none" /\ mth.wpc = "none"
          /\ mth.pc \in {"ctor", "threw"}
    /\ AllPositive(mgr.config_) => mth.thrown = ""

\* The constructor has thrown for a configuration whose only member that is
\* not positive is the last one tested.
C25_Witness ==
    /\ mth.pc = "threw" /\ mth.thrown = "invalid_argument"
    /\ mgr.config_.hash_table_buckets = 0
    /\ \A member \in ValidatedMembers \ {"hash_table_buckets"} :
          mgr.config_[member] > 0
    /\ mgr.node_pool_ = << >> /\ mth.wpc = "none"

ReleasesOf(node) ==
    IF node \in DOMAIN mth.released THEN mth.released[node] ELSE << >>

\* C26: tearing a MemoryManager down leaves the expired-nodes queue empty and
\* has released every node that was marked for cleanup exactly once, by the
\* worker or by the final sweep, whatever the interleaving.
C26_MarkedReleasedOnce ==
    /\ ~mth.aborted
    /\ \A node \in mth.marked : Len(ReleasesOf(node)) <= 1
    /\ mth.pc = "destroyed" =>
          /\ mgr.expired_nodes_ = << >>
          /\ \A node \in mth.marked :
                ReleasesOf(node) \in {<<"worker">>, <<"sweep">>}

\* The bits of every probe of key are set.
ProbesSet(key) ==
    \A i \in 0 .. bf.hash_function_count_ - 1 :
       get_bit(ProbeIndex(bth.hash[key][1], bth.hash[key][2], i, bf.bit_array_size_))

\* C27: a Bloom filter has no false negatives: once add(k) has returned,
\* might_contain(k) returns true, whatever adds follow or run beside it on
\* other threads through add_thread_safe; no update of a word erases a bit
\* another add has set.
C27_NoFalseNegatives ==
    /\ \A key \in bth.added : ProbesSet(key)
    /\ \A t \in Workers :
          LET l == bth.th[t]
          IN l.op = "might_contain" /\ l.returned /\ l.known => l.result

\* A thread has added a key and been told the filter may contain it, while
\* the other thread's add of another key had to repeat a compare-exchange
\* because the word had changed under it.
C27_Witness ==
    /\ bf.hash_function_count_ >= 1
    /\ \E t \in Workers, u \in Workers :
          /\ t # u
          /\ bth.th[t].op = "might_contain" /\ bth.th[t].returned
          /\ bth.th[t].known /\ bth.th[t].result
          /\ bth.th[u].op = "add" /\ bth.th[u].returned /\ bth.th[u].contended
          /\ bth.th[u].key # bth.th[t].key
          /\ bth.hash[bth.th[u].key] # bth.hash[bth.th[t].key]

\* After the n adds of the only key and with no counter at its maximum:
\* every remove made has returned true, and might_contain has returned true
\* after fewer than n removes and false after n.
AddsCancelled ==
    bth.adds = bth.n /\ ~bth.saturated =>
       /\ \A j \in 1 .. Len(bth.removes) : bth.removes[j]
       /\ \A j \in 1 .. Len(bth.contains) : bth.contains[j] = (j <= bth.n)

\* C28 as stated: in a counting Bloom filter to which only key k has been
\* added, n times and without saturating a counter, each of the first n
\* remove(k) returns true, might_contain(k) is true after fewer than n removes
\* and false after the n-th.
C28_AddRemoveCancel == AddsCancelled

\* C28 amended: the same, for a filter with at least one hash function.
C28_AddRemoveCancelWithProbes ==
    bf.hash_function_count_ >= 1 => AddsCancelled

\* A key whose six probes fall on three counters has been added three times
\* and removed three times: every remove returned true and might_contain
\* turned false at the last.
C28_Witness ==
    /\ bf.hash_function_count_ = 6 /\ bf.counter_array_size_ = 9
    /\ bth.h = <<5, 3>> /\ bth.n = 3 /\ bth.adds = 3 /\ ~bth.saturated
    /\ bth.removes = <<TRUE, TRUE, TRUE>>
    /\ bth.contains = <<TRUE, TRUE, TRUE, FALSE>>
    /\ \A c \in DOMAIN bf.counter_array_ : bf.counter_array_[c] = 0

\* C31: a slot claimed by an insert whose push fails is never reused: the
\* inserts that returned true, the inserts refused by a full bucket and the
\* items of the batches that returned true are together at most max_nodes.
C31_LeakedSlotsCount == insTrue + insFull + batTrue <= max_nodes

\* The arena is used up with a slot lost to a full bucket: fewer than
\* max_nodes records were accepted and an insert is refused by the index test.
C31_Witness ==
    /\ insFull >= 1 /\ insTrue >= 1 /\ batTrue >= 1
    /\ insTrue + insFull + batTrue = max_nodes
    /\ total_nodes < max_nodes
    /\ res[T1].op = "insert" /\ ~res[T1].ok /\ res[T1].why = "arena"

\* C32: a slot moves only forward through claimed, written, enqueued and
\* popped: no slot is claimed twice, a heap cell holds only slots whose fields
\* have been written, and a slot that a pop has returned or discarded is in no
\* heap cell afterwards.
C32_SlotsMoveForward ==
    /\ \A s \in DOMAIN writes : writes[s] = 1
    /\ InHeaps \subseteq DOMAIN writes
    /\ \A s \in DOMAIN retCount :
          (retCount[s] >= 1 \/ node_pool[s].freed) => s \notin InHeaps

\* C33: the cleanup worker always stops: once stop_cleanup_thread has set the
\* shutdown flag and notified, the worker leaves its loop and the join
\* returns, also when the notification found the worker not waiting.
C33_WorkerStops ==
    (mth.pc = "dtor_join") ~> (mth.wpc = "exited" /\ mgr.cleanup_thread_ = "joined")

\* The join has returned although the notification came between the
\* worker's test of the predicate and its blocking, where it is lost.
C33_Witness ==
    /\ mth.stop_found = "blocking"
    /\ mth.wpc = "exited" /\ mgr.cleanup_thread_ = "joined"

\* The heap cells that hold slot s.
CellsOf(s) ==
    {<<m, i>> \in (DOMAIN bnodes) \X (1 .. Capacity) : HeapOf(m)[i] = s}

\* C34: records are conserved under concurrent inserts and retrievals of one
\* key: in a quiescent state every record whose insert returned true has been
\* returned by exactly one retrieval, or discarded as expired, or is in
\* exactly one heap cell below the size of its heap; no cell at or above the
\* size holds a record and no cell below it is empty.
C34_RecordsConserved ==
    (Quiescent /\ ~crashed) =>
       /\ \A m \in DOMAIN bnodes : \A i \in 1 .. Capacity :
             (i <= bnodes[m].size) <=> (HeapOf(m)[i] # Null)
       /\ \A s \in okSlots :
             retCount[s] + (IF node_pool[s].freed THEN 1 ELSE 0)
                + Cardinality(CellsOf(s)) = 1

\* Thread t adds n to total_nodes for slots it has claimed below max_nodes.
CountsItsSlots(t, n) ==
    /\ pc[t] \in {"ins_count", "bat_item"}
    /\ pc'[t] = "idle" /\ res'[t].ok
    /\ Cardinality(Claimed(t)) = n
    /\ Claimed(t) \subseteq 0 .. (max_nodes - 1)
    /\ \A u \in Threads \ {t} : Claimed(u) \cap Claimed(t) = {}

\* C35: total_nodes never exceeds max_nodes, also when insert and
\* insert_batch run concurrently: every increment is made by a call that has
\* claimed that many slots of the arena below max_nodes.
C35_TotalNodesBounded ==
    /\ [](total_nodes <= max_nodes)
    /\ [][total_nodes' # total_nodes =>
            \E t \in Threads : CountsItsSlots(t, total_nodes' - total_nodes)]_vars

\* An insert and a batch that ran side by side have both been counted and
\* total_nodes has reached max_nodes.
C35_Witness ==
    /\ total_nodes = max_nodes /\ phase = "run"
    /\ res[T1].op = "insert" /\ res[T1].ok
    /\ res[T2].op = "batch" /\ res[T2].ok
    /\ res[T1].index > res[T2].index
\* The nodes allocate_node has handed out: those the caller still holds and
\* those it has given back.
HandedOut == mth.held \cup mth.marked

\* C36: every node handed out by allocate_node is released to the allocator
\* at most once over the manager's lifetime: a node given back with
\* deallocate_node and freed by the worker or the final sweep is not freed
\* again by the destructor's pass over the pool or the fallback blocks.
C36_HandedOutReleasedOnce ==
    \A node \in HandedOut : Len(ReleasesOf(node)) <= 1
\* C37: validate_memory_integrity holds in every reachable state: under any
\* interleaving of concurrent allocate_node and deallocate_node calls, each
\* node deallocated at most once, allocated_nodes_ never exceeds max_nodes
\* and pool_index_ never exceeds the size of the pool (the first and the third
\* test of validate_memory_integrity).
C37_IntegrityHolds ==
    mth.pc = "live" =>
       /\ ~(mgr.allocated_nodes_ > mgr.config_.max_nodes)
       /\ ~(mgr.pool_index_ > Len(mgr.node_pool_))
\* The values of the nodes that follow head_, at most QueueNodes of them.
RECURSIVE ValuesFrom(_, _)
ValuesFrom(n, fuel) ==
    IF n = QNull \/ fuel = 0 THEN {}
    ELSE {q.node[n].data} \cup ValuesFrom(q.node[n].next, fuel - 1)

QueueValues == ValuesFrom(q.node[q.head_].next, QueueNodes)

\* The place of value in the order of the dequeues, 0 when it was not taken.
DequeuePlace(value) ==
    IF value \in Dequeued
    THEN CHOOSE i \in DOMAIN qth.deq : qth.deq[i] = value
    ELSE 0

\* C38: LockFreeQueue is a linearizable FIFO queue under concurrent enqueue
\* and dequeue, also when dequeued nodes are recycled through the free list:
\* every value is dequeued at most once and only after its enqueue began, no
\* value of a returned enqueue is lost, the values of one thread leave in the
\* order of its enqueues, and dequeue returns false only when the queue is
\* empty.
C38_LinearizableFifo ==
    /\ \A i, j \in DOMAIN qth.deq : i # j => qth.deq[i] # qth.deq[j]
    /\ Dequeued \subseteq 1 .. qth.issued
    /\ Enqueued \subseteq Dequeued \cup QueueValues
    /\ \A i, j \in DOMAIN qth.enq :
          i < j /\ qth.enq[i].thread = qth.enq[j].thread
                /\ qth.enq[j].value \in Dequeued =>
             /\ qth.enq[i].value \in Dequeued
             /\ DequeuePlace(qth.enq[i].value) < DequeuePlace(qth.enq[j].value)
    /\ ~qth.false_nonempty
\* C39: a remove that returns false leaves every counter and the element
\* count as it found them, so a failed remove of a key that was never added
\* cannot make might_contain return false for a key that was added.
C39_FailedRemoveChangesNothing ==
    bth.last.op = "remove" /\ ~bth.last.ok =>
       /\ bf.counter_array_ = bth.last.counters
       /\ bf.added_elements_ = bth.last.elements
       /\ \A key \in bth.last.contained :
             CountingMightContain(bth.hash[key][1], bth.hash[key][2])
\* The node blocks the manager has allocated and not released.
HeldBlocks ==
    {mgr.node_pool_[i] : i \in DOMAIN mgr.node_pool_}
       \cup {mgr.memory_blocks_[i] : i \in DOMAIN mgr.memory_blocks_}
\* The size of the blocks held: sizeof(Node) for each that has not been
\* released.
HeldBytes ==
    NODE_BYTES * Cardinality({node \in HeldBlocks : ReleasesOf(node) = << >>})

\* C40: total_memory_usage_ is the total size of the node blocks held, in
\* every state in which no call and no worker cycle is under way; every
\* allocation adds its size once and every release subtracts it once, for
\* pool nodes and fallback allocations alike, and the unsigned counter never
\* goes below zero.
C40_UsageIsBytesHeld ==
    /\ mgr.total_memory_usage_ >= 0
    /\ mth.pc = "live" /\ mth.nodes_to_cleanup = << >> =>
          mgr.total_memory_usage_ = HeldBytes
====
